---------------------------- MODULE Spec2Model ----------------------------
(***************************************************************************)
(* A model of kbol's document ingestion and caching pipeline:              *)
(*   - DocumentTracker (src/src/kbol/tracking/document_tracker.py),        *)
(*   - TextChunker     (src/src/kbol/indexer/core/chunker.py),             *)
(*   - Embedder        (src/src/kbol/indexer/core/embedder.py),            *)
(*   - BookIndexer     (src/src/kbol/indexer/core/processor.py),           *)
(*   - the command     (src/src/kbol/cli/commands/process.py),             *)
(*   - search_chunks   (src/src/kbol/core/search.py, core/embedding.py).   *)
(*                                                                         *)
(* Six specifications share the module's variables:                        *)
(*   Spec        BookIndexer.process_books / process_pdf over a directory, *)
(*               and the command `kbol process`,                           *)
(*   LedgerSpec  the DocumentTracker operations called in any order,       *)
(*   RecordSpec  concurrent calls of DocumentTracker.record_processing,    *)
(*   ChunkSpec   the window loop of TextChunker.chunk_text,                *)
(*   EmbedSpec   BookIndexer._process_chunks with the concurrent requests  *)
(*               of Embedder.get_embeddings_batch,                         *)
(*   SearchSpec  search_chunks over the files of data/processed.           *)
(***************************************************************************)
EXTENDS Integers, Sequences, FiniteSets, TLC

VARIABLES
    \* ---- durable state: ledger store, files
    ledger,         \* table processed_documents: a set of rows
    versions,       \* table processor_versions: a set of rows
    fileBytes,      \* the bytes of each document file, by path
    faults,         \* failures of the database and the file system, and
                    \* interruptions, so far
    outFile,        \* data/processed/<stem>.json, by path (None or chunk list)
    outConfig,      \* history: the configuration of the indexer that wrote it
    tmpFile,        \* data/processed/<stem>.tmp.json, by path
    \* ---- DocumentTracker.should_process, as observed by its caller
    spCall,
    \* ---- BookIndexer
    config,         \* self.config
    stats,          \* self.stats
    runPc,          \* where process_books is
    idx,            \* position of the batch loop in pdf_files
    runs,           \* batch runs started so far
    pdfPc,          \* where process_pdf is
    reader,         \* process_pdf: the bytes PdfReader opened
    page_num,       \* process_pdf: pages handled so far
    chunks,         \* process_pdf: the local list `chunks`
    exc,            \* process_pdf: the exception being handled (str(e))
    outcome,        \* per document: Pending, InProgress, Skipped, Completed, Failed
    attempts,       \* per document: calls of process_pdf in this run
    io,             \* the kinds of I/O the latest process_pdf call has done
    checkpointed,   \* the page at which that call last wrote the temporary file
    \* ---- TextChunker.chunk_text
    tokens, chunk_size, chunk_overlap, start, chunk_indices, ckPc,
    \* ---- BookIndexer._process_chunks / Embedder.get_embeddings_batch
    embPc,            \* where _process_chunks is
    chunk_texts,      \* _process_chunks: the argument `chunks`
    batch_start,      \* _process_chunks: the batch loop's i
    attempt,          \* _process_chunks: the retry loop's attempt
    responses,        \* get_embeddings_batch: per position, the request's outcome
    arrival,          \* the positions in the order their requests completed
    batch_embeddings, \* _process_chunks: `embeddings`, once the call returned
    processed_chunks, \* _process_chunks: the list it builds
    max_retries,      \* self.max_retries
    batch_log,        \* what the retry loop has done for the current batch
    call_batch,       \* the batch (its i) of the call `embeddings` came from
    \* ---- DocumentTracker.record_processing, per concurrent caller
    txn,              \* where the call is, its arguments, its transaction
    \* ---- the command `kbol process`
    command,          \* the invocation in progress: its options, its exit code
    \* ---- history
    interrupted,      \* the latest interrupted call of process_pdf, and what
                      \* the next call for that document did
    \* ---- search_chunks
    srPc,                 \* where search_chunks is
    query_embedding,      \* the embedding of the query
    top_k,
    similarity_threshold,
    all_chunks,           \* the chunks loaded from data/processed
    returned              \* what the call returned

trackerVars == <<ledger, versions, fileBytes, faults, spCall>>
fileVars    == <<outFile, outConfig, tmpFile>>
pipeVars    == <<config, stats, runPc, idx, runs, pdfPc, reader, page_num, chunks, exc,
                 outcome, attempts, io, checkpointed>>
chunkVars   == <<tokens, chunk_size, chunk_overlap, start, chunk_indices, ckPc>>
embedVars   == <<embPc, chunk_texts, batch_start, attempt, responses, arrival,
                 batch_embeddings, processed_chunks, max_retries, batch_log,
                 call_batch>>
writerVars  == <<txn>>
cliVars     == <<command>>
resumeVars  == <<interrupted>>
searchVars  == <<srPc, query_embedding, top_k, similarity_threshold, all_chunks, returned>>
vars        == <<trackerVars, fileVars, pipeVars, chunkVars, embedVars, writerVars, cliVars, resumeVars, searchVars>>

(***************************************************************************)
(* Python's None and Optional values: None is the empty tuple, a value v   *)
(* is the one-element tuple <<v>>.                                         *)
(***************************************************************************)
None == <<>>
Some(v) == <<v>>

(***************************************************************************)
(* Bounds of the model.                                                    *)
(***************************************************************************)
NumDocs == 2
Docs == 1..NumDocs

\* File contents. 0 is a file that cannot be read (open() raises).
Unreadable == 0
ReadableBytes == {1, 2}

(***************************************************************************)
(* ProcessingConfig (document_tracker.py:15-38).                           *)
(***************************************************************************)
\* The processor version is the first 12 hex digits of the SHA-256 of the
\* chunker's and the embedder's class source; a build is that source text.
Builds == {"build-A", "build-B"}
version_hash(build) == IF build = "build-A" THEN "3fa9c01d2b77" ELSE "c41e88a0d9f2"

from_indexer(size, overlap, model, build) ==
    [chunk_size        |-> size,
     chunk_overlap     |-> overlap,
     embed_model       |-> model,
     processor_version |-> version_hash(build)]

BaseConfig == from_indexer(512, 50, "nomic-embed-text", "build-A")
\* The base configuration and every configuration that differs from it in
\* exactly one field.
Configs ==
    {BaseConfig,
     from_indexer(256, 50, "nomic-embed-text", "build-A"),
     from_indexer(512, 25, "nomic-embed-text", "build-A"),
     from_indexer(512, 50, "mxbai-embed-large", "build-A"),
     from_indexer(512, 50, "nomic-embed-text", "build-B")}

(***************************************************************************)
(* DocumentTracker                                                         *)
(***************************************************************************)
\* compute_file_hash: SHA-256 of the file's bytes; distinct contents of the
\* model have distinct digests.
compute_file_hash(bytes) == <<"sha256", bytes>>

\* _check_db: SELECT status, error_message FROM processed_documents WHERE
\* file_path, file_hash and the four configuration fields all match.
check_db_dropping_version(led, path, hash, cfg) ==
    {r \in led : /\ r.file_path = path
                 /\ r.file_hash = hash
                 /\ r.chunk_size = cfg.chunk_size
                 /\ r.chunk_overlap = cfg.chunk_overlap
                 /\ r.embed_model = cfg.embed_model}

check_db(led, path, hash, cfg) ==
    {r \in led : /\ r.file_path = path
                 /\ r.file_hash = hash
                 /\ r.chunk_size = cfg.chunk_size
                 /\ r.chunk_overlap = cfg.chunk_overlap
                 /\ r.embed_model = cfg.embed_model
                 /\ r.processor_version = cfg.processor_version}

\* should_process: what the call does, given the ledger, the file's bytes
\* and whether the database answers. `raised` is an exception leaving the
\* call; `hashed` and `queried` say whether it read the file and the ledger.
should_process_ignoring_force(led, bytes, path, cfg, force, dbOk) ==
    LET rows == check_db(led, path, compute_file_hash(bytes), cfg) IN
    IF bytes = Unreadable
    THEN [raised |-> TRUE, ret |-> None, hashed |-> TRUE, queried |-> FALSE]
    ELSE IF ~dbOk
    THEN [raised |-> TRUE, ret |-> None, hashed |-> TRUE, queried |-> TRUE]
    ELSE IF rows = {}
    THEN [raised |-> FALSE, ret |-> <<TRUE, None>>, hashed |-> TRUE, queried |-> TRUE]
    ELSE LET result == CHOOSE r \in rows : TRUE IN
         IF result.status = "failed"
         THEN [raised |-> FALSE, ret |-> <<TRUE, result.error_message>>,
               hashed |-> TRUE, queried |-> TRUE]
         ELSE [raised |-> FALSE, ret |-> <<FALSE, None>>,
               hashed |-> TRUE, queried |-> TRUE]

should_process(led, bytes, path, cfg, force, dbOk) ==
    IF force
    THEN [raised |-> FALSE, ret |-> <<TRUE, None>>, hashed |-> FALSE, queried |-> FALSE]
    ELSE LET rows == check_db(led, path, compute_file_hash(bytes), cfg) IN
    IF bytes = Unreadable
    THEN [raised |-> TRUE, ret |-> None, hashed |-> TRUE, queried |-> FALSE]
    ELSE IF ~dbOk
    THEN [raised |-> TRUE, ret |-> None, hashed |-> TRUE, queried |-> TRUE]
    ELSE IF rows = {}
    THEN [raised |-> FALSE, ret |-> <<TRUE, None>>, hashed |-> TRUE, queried |-> TRUE]
    ELSE LET result == CHOOSE r \in rows : TRUE IN
         IF result.status = "failed"
         THEN [raised |-> FALSE, ret |-> <<TRUE, result.error_message>>,
               hashed |-> TRUE, queried |-> TRUE]
         ELSE [raised |-> FALSE, ret |-> <<FALSE, None>>,
               hashed |-> TRUE, queried |-> TRUE]

\* A metadata dict (of the processed pages), the empty dict, and
\* Json(metadata or {}): no metadata is stored as the empty dict.
Dict(pages_processed) == <<"dict", pages_processed>>
EmptyDict == <<"dict">>
Json(metadata) == IF metadata = None THEN EmptyDict ELSE metadata

\* The row record_processing writes.
ledger_row_without_tokens(path, hash, cfg, chunks_count, total_tokens, status, error_message, metadata) ==
    [file_path         |-> path,
     file_hash         |-> hash,
     chunk_size        |-> cfg.chunk_size,
     chunk_overlap     |-> cfg.chunk_overlap,
     embed_model       |-> cfg.embed_model,
     processor_version |-> cfg.processor_version,
     chunks_count      |-> chunks_count,
     total_tokens      |-> 0,
     status            |-> status,
     error_message     |-> error_message,
     metadata          |-> Json(metadata)]

ledger_row(path, hash, cfg, chunks_count, total_tokens, status, error_message, metadata) ==
    [file_path         |-> path,
     file_hash         |-> hash,
     chunk_size        |-> cfg.chunk_size,
     chunk_overlap     |-> cfg.chunk_overlap,
     embed_model       |-> cfg.embed_model,
     processor_version |-> cfg.processor_version,
     chunks_count      |-> chunks_count,
     total_tokens      |-> total_tokens,
     status            |-> status,
     error_message     |-> error_message,
     metadata          |-> Json(metadata)]

\* INSERT INTO processor_versions ... ON CONFLICT (version_hash) DO NOTHING
insert_version_updating(vers, cfg) ==
    {v \in vers : v.version_hash # cfg.processor_version}
        \cup {[version_hash |-> cfg.processor_version, config_json |-> cfg]}

insert_version(vers, cfg) ==
    IF \E v \in vers : v.version_hash = cfg.processor_version
    THEN vers
    ELSE vers \cup {[version_hash |-> cfg.processor_version, config_json |-> cfg]}

\* INSERT INTO processed_documents ... ON CONFLICT (file_path) DO UPDATE SET
\* every column from the new row.
upsert_document_keeping_error(led, row) ==
    {r \in led : r.file_path # row.file_path} \cup
    {IF row.error_message = None /\ \E r \in led : r.file_path = row.file_path
     THEN [row EXCEPT !.error_message =
               (CHOOSE r \in led : r.file_path = row.file_path).error_message]
     ELSE row}

upsert_document(led, row) ==
    {r \in led : r.file_path # row.file_path} \cup {row}

(***************************************************************************)
(* LedgerSpec: the tracker's operations, called in any order by a client.  *)
(***************************************************************************)
\* What a client passes to record_processing: counts, status, error, metadata.
RecordOutcomes ==
    {[chunks_count |-> 2, total_tokens |-> 3, status |-> "completed",
      error_message |-> None, metadata |-> Dict(1)],
     [chunks_count |-> 0, total_tokens |-> 0, status |-> "failed",
      error_message |-> Some("boom"), metadata |-> None]}

\* The paths the client of LedgerSpec works on.
TrackerPaths == {1, 2}

\* The client holds no result of should_process.
NoCall ==
    [called |-> FALSE, file_path |-> 0, config |-> BaseConfig, force |-> FALSE,
     db_answers |-> TRUE,
     result |-> [raised |-> FALSE, ret |-> None, hashed |-> FALSE, queried |-> FALSE],
     again |-> None]

\* should_process, lines 85-108: the table processed_documents after the
\* SELECT of _check_db.
select_consuming_failed(led, path) ==
    {r \in led : ~(r.file_path = path /\ r.status = "failed")}

select(led, path) == led

\* The client calls should_process(path, cfg, force) and holds what the call
\* did and returned, together with the arguments it passed.
TrackerShouldProcess(path, cfg, force, dbOk) ==
    /\ ~spCall.called
    /\ (force \/ fileBytes[path] = Unreadable) => dbOk   \* no query is made
    /\ spCall' = [called |-> TRUE, file_path |-> path, config |-> cfg, force |-> force,
                  db_answers |-> dbOk,
                  result |-> should_process(ledger, fileBytes[path], path, cfg, force, dbOk),
                  again |-> None]
    /\ ledger' = IF spCall'.result.queried /\ dbOk THEN select(ledger, path) ELSE ledger
    /\ UNCHANGED <<versions, fileBytes, faults>>
    /\ UNCHANGED <<fileVars, pipeVars, chunkVars, embedVars, writerVars, cliVars, resumeVars, searchVars>>

\* The client calls should_process a second time with the same arguments,
\* before anything else happens, and holds that result too.
TrackerShouldProcessAgain ==
    /\ spCall.called
    /\ spCall.again = None
    /\ spCall' = [spCall EXCEPT !.again =
                      Some(should_process(ledger, fileBytes[spCall.file_path],
                                          spCall.file_path, spCall.config, spCall.force,
                                          spCall.db_answers))]
    /\ ledger' = IF spCall'.again[1].queried /\ spCall.db_answers
                 THEN select(ledger, spCall.file_path) ELSE ledger
    /\ UNCHANGED <<versions, fileBytes, faults>>
    /\ UNCHANGED <<fileVars, pipeVars, chunkVars, embedVars, writerVars, cliVars, resumeVars, searchVars>>

\* The client has acted on the result and drops it.
TrackerReturn ==
    /\ spCall.called
    /\ spCall' = NoCall
    /\ UNCHANGED <<ledger, versions, fileBytes, faults>>
    /\ UNCHANGED <<fileVars, pipeVars, chunkVars, embedVars, writerVars, cliVars, resumeVars, searchVars>>

TrackerRecord(path, cfg, o) ==
    /\ ~spCall.called
    /\ fileBytes[path] # Unreadable
    /\ versions' = insert_version(versions, cfg)
    /\ ledger' = upsert_document(ledger,
                    ledger_row(path, compute_file_hash(fileBytes[path]), cfg,
                               o.chunks_count, o.total_tokens, o.status,
                               o.error_message, o.metadata))
    /\ UNCHANGED <<fileBytes, faults, spCall>>
    /\ UNCHANGED <<fileVars, pipeVars, chunkVars, embedVars, writerVars, cliVars, resumeVars, searchVars>>

\* reset_tracking: DELETE FROM processed_documents, commit.
reset_tracking_dropping_versions(led, vers) == [ledger |-> {}, versions |-> {}]

reset_tracking(led, vers) == [ledger |-> {}, versions |-> vers]

\* clear_all: DELETE FROM processed_documents, DELETE FROM
\* processor_versions, commit.
clear_all(led, vers) == [ledger |-> {}, versions |-> {}]

TrackerResetTracking ==
    /\ ~spCall.called
    /\ ledger' = reset_tracking(ledger, versions).ledger
    /\ versions' = reset_tracking(ledger, versions).versions
    /\ UNCHANGED <<fileBytes, faults, spCall>>
    /\ UNCHANGED <<fileVars, pipeVars, chunkVars, embedVars, writerVars, cliVars, resumeVars, searchVars>>

TrackerClearAll ==
    /\ ~spCall.called
    /\ ledger' = clear_all(ledger, versions).ledger
    /\ versions' = clear_all(ledger, versions).versions
    /\ UNCHANGED <<fileBytes, faults, spCall>>
    /\ UNCHANGED <<fileVars, pipeVars, chunkVars, embedVars, writerVars, cliVars, resumeVars, searchVars>>

\* The environment rewrites, removes or restores a document file.
TrackerModifyFile(path, bytes) ==
    /\ ~spCall.called
    /\ fileBytes[path] # bytes
    /\ fileBytes' = [fileBytes EXCEPT ![path] = bytes]
    /\ UNCHANGED <<ledger, versions, faults, spCall>>
    /\ UNCHANGED <<fileVars, pipeVars, chunkVars, embedVars, writerVars, cliVars, resumeVars, searchVars>>

(***************************************************************************)
(* Documents, chunk texts and the embedding service, as the pipeline sees  *)
(* them.                                                                   *)
(***************************************************************************)
\* File contents of the pipeline's documents (0, a file that cannot be read,
\* makes compute_file_hash and PdfReader raise):
\*   1  readable bytes that are no PDF (PdfReader raises),
\*   2  a PDF of two pages: one without text, one whose text is one chunk
\*      string,
\*   3  a PDF of two pages: one whose text is one chunk string, one whose
\*      extract_text raises,
\*   4  a PDF of twenty pages: pages 10 and 19 have text of one chunk string
\*      each, the others have none,
\*   5  a PDF of eleven pages: page 10 has text of one chunk string, the
\*      extract_text of page 11 raises, the others have no text.
Corrupt == 1
PipeBytes == {Unreadable, Corrupt, 2, 3, 4, 5}

\* The contents a file is replaced with between two batch runs.
ReplacementBytes == {Unreadable, Corrupt, 2, 3}

BlankPage == [raises |-> FALSE, texts |-> <<>>]
TextPage(text) == [raises |-> FALSE, texts |-> <<text>>]
RaisingPage == [raises |-> TRUE, texts |-> <<>>]

\* reader.pages: per page, whether page.extract_text() raises and the chunk
\* strings TextChunker.chunk_text gives for its text (none: the text is
\* empty after strip).
PagesOf(bytes) ==
    CASE bytes = 2 -> << [raises |-> FALSE, texts |-> <<>>],
                         [raises |-> FALSE, texts |-> <<"beta gamma">>] >>
      [] bytes = 3 -> << [raises |-> FALSE, texts |-> <<"alpha">>],
                         [raises |-> TRUE,  texts |-> <<>>] >>
      [] bytes = 4 -> [n \in 1..20 |-> IF n = 10 THEN TextPage("alpha")
                                       ELSE IF n = 19 THEN TextPage("delta")
                                       ELSE BlankPage]
      [] bytes = 5 -> [n \in 1..11 |-> IF n = 10 THEN TextPage("alpha")
                                       ELSE IF n = 11 THEN RaisingPage
                                       ELSE BlankPage]
      [] OTHER -> <<>>

\* self.chunker.tokenizer.encode(chunk_text): the token ids of a chunk string.
encode(text) ==
    CASE text = "alpha" -> <<11>>
      [] text = "beta gamma" -> <<12, 13>>
      [] text = "delta" -> <<14>>
      [] OTHER -> <<>>

\* The vector the embedding service answers for a prompt.
embedding_of(text) ==
    CASE text = "alpha" -> <<1, 0>>
      [] text = "beta gamma" -> <<0, 1>>
      [] text = "delta" -> <<9, 1>>
      [] OTHER -> <<0, 0>>

\* Bounds on the constructor's parameters (processor.py:28-29).
batch_size == 2
\* The longest list of chunk strings a page of PagesOf gives.
MaxPageChunks == 1
MaxRuns == 2
\* The database and the file system fail at most this many times.
MaxFaults == 1

\* The configurations batch runs are started with.
RunConfigs == {BaseConfig, from_indexer(256, 50, "nomic-embed-text", "build-A")}

ZeroStats ==
    [total_chunks |-> 0, total_tokens |-> 0, failed_chunks |-> 0,
     processed_books |-> 0, skipped_books |-> 0]

(***************************************************************************)
(* BookIndexer._process_chunks, lines 97-112: the chunk objects and the    *)
(* statistics of one batch, given what get_embeddings_batch returned.      *)
(***************************************************************************)
Min(a, b) == IF a < b THEN a ELSE b

chunk_object(book, page, text, embedding) ==
    [book |-> book, page |-> page, content |-> text,
     embedding |-> embedding[1], token_count |-> Len(encode(text))]

\* for chunk_text, embedding in zip(batch, embeddings): the objects of the
\* positions whose embedding is not None, in order.
RECURSIVE create_chunk_objects(_, _, _, _)
create_chunk_objects(batch, embeddings, book, page) ==
    IF batch = <<>> \/ embeddings = <<>>
    THEN <<>>
    ELSE (IF Head(embeddings) # None
          THEN <<chunk_object(book, page, Head(batch), Head(embeddings))>>
          ELSE <<>>)
         \o create_chunk_objects(Tail(batch), Tail(embeddings), book, page)

RECURSIVE SumTokens(_)
SumTokens(cs) == IF cs = <<>> THEN 0 ELSE Head(cs).token_count + SumTokens(Tail(cs))

\* self.stats after the loop over one batch.
count_batch_without_failures(st, batch, embeddings, objects) ==
    [st EXCEPT !.total_chunks = @ + Len(objects),
               !.total_tokens = @ + SumTokens(objects)]

count_batch(st, batch, embeddings, objects) ==
    [st EXCEPT !.total_chunks = @ + Len(objects),
               !.total_tokens = @ + SumTokens(objects),
               !.failed_chunks = @ + (Min(Len(batch), Len(embeddings)) - Len(objects))]

\* chunks[i : i + self.batch_size] for the k-th batch (k = 1, 2, ...).
batch_of(texts, k) ==
    SubSeq(texts, (k - 1) * batch_size + 1, Min(k * batch_size, Len(texts)))

NumBatches(texts) == (Len(texts) + batch_size - 1) \div batch_size

\* What the embedder returns for a batch when the request of position i is
\* answered with a vector (res[i] = "vec") or fails (res[i] = "none").
embeddings_for(batch, res) ==
    [i \in 1..Len(batch) |->
        IF res[i] = "vec" THEN Some(embedding_of(batch[i])) ELSE None]

\* _process_chunks over a page's chunk strings when the batches before
\* failAt return (res says which positions embed) and batch failAt exhausts
\* its retries (failAt = 0: every batch returns).
RECURSIVE process_chunks(_, _, _, _, _, _, _)
process_chunks(texts, res, failAt, k, book, page, acc) ==
    IF k > NumBatches(texts)
    THEN [raised |-> FALSE, processed_chunks |-> acc.processed_chunks, stats |-> acc.stats]
    ELSE IF k = failAt
    THEN [raised |-> TRUE, processed_chunks |-> acc.processed_chunks, stats |-> acc.stats]
    ELSE LET batch == batch_of(texts, k)
             lo == (k - 1) * batch_size
             embeddings == embeddings_for(batch, [i \in 1..Len(batch) |-> res[lo + i]])
             objects == create_chunk_objects(batch, embeddings, book, page)
         IN process_chunks(texts, res, failAt, k + 1, book, page,
                [processed_chunks |-> acc.processed_chunks \o objects,
                 stats |-> count_batch(acc.stats, batch, embeddings, objects)])

(***************************************************************************)
(* BookIndexer.process_books and process_pdf.                              *)
(***************************************************************************)
CheckpointInterval == 10

\* process_books, lines 259-266: the batch loop's except clause prints the
\* error and the for loop goes on with the next file.
on_document_exception_reraise(i) == [runPc |-> "raised", idx |-> i]

on_document_exception(i) == [runPc |-> "loop", idx |-> i + 1]

\* process_pdf's frame is gone: its locals no longer exist.
DropLocals ==
    /\ reader' = None
    /\ page_num' = 0
    /\ chunks' = <<>>
    /\ exc' = None

\* An exception leaves process_pdf for document d.
Propagate(d) ==
    /\ outcome' = [outcome EXCEPT ![d] = "Failed"]
    /\ pdfPc' = "none"
    /\ DropLocals
    /\ runPc' = on_document_exception(idx).runPc
    /\ idx' = on_document_exception(idx).idx

\* process_pdf returns normally for document d.
Return(d, how) ==
    /\ outcome' = [outcome EXCEPT ![d] = how]
    /\ pdfPc' = "none"
    /\ DropLocals
    /\ idx' = idx + 1
    /\ UNCHANGED runPc

\* A call that may fail (a database operation, a file write, an embedding
\* batch) succeeds (ok) or uses up one of the failures of the model.
Fault(ok) ==
    /\ ~ok => faults < MaxFaults
    /\ faults' = IF ok THEN faults ELSE faults + 1

\* BookIndexer(...) is constructed and process_books lists the directory.
StartRun(cfg) ==
    /\ runPc = "idle"
    /\ ~command.invoked      \* one process at a time
    /\ runs < MaxRuns
    /\ runs = 0 => cfg = BaseConfig
    /\ runs' = runs + 1
    /\ config' = cfg
    /\ stats' = ZeroStats
    /\ runPc' = "loop"
    /\ idx' = 1
    /\ outcome' = [d \in Docs |-> "Pending"]
    /\ attempts' = [d \in Docs |-> 0]
    /\ io' = {}
    /\ checkpointed' = 0
    /\ UNCHANGED <<pdfPc, reader, page_num, chunks, exc>>
    /\ UNCHANGED <<trackerVars, fileVars>>
    /\ UNCHANGED <<chunkVars, embedVars, writerVars, cliVars, resumeVars, searchVars>>

\* process_pdf, lines 131-145: the call of should_process and the skip.
skip_stats_as_processed(st) == [st EXCEPT !.processed_books = @ + 1]

skip_stats(st) == [st EXCEPT !.skipped_books = @ + 1]

\* History: the first call of process_pdf for the interrupted document
\* whose ledger query answers is noted with the state it took the document
\* to, when file and configuration are those of the interrupted call; with
\* another file or configuration the interrupted call is forgotten.
resumed(intr, d, hash, cfg, dbOk, state) ==
    IF intr = None \/ intr[1].doc # d \/ intr[1].rechecked # "no"
    THEN intr
    ELSE IF intr[1].file_hash # hash \/ intr[1].config # cfg
    THEN None
    ELSE IF ~dbOk
    THEN intr
    ELSE Some([intr[1] EXCEPT !.rechecked = state])

PdfCheck(dbOk) ==
    /\ runPc = "loop" /\ pdfPc = "none" /\ idx <= NumDocs
    /\ Fault(dbOk)
    /\ fileBytes[idx] = Unreadable => dbOk    \* the query is never reached
    /\ LET d == idx
           r == should_process(ledger, fileBytes[d], d, config, FALSE, dbOk)
       IN /\ attempts' = [attempts EXCEPT ![d] = @ + 1]
          /\ io' = {}
          /\ checkpointed' = 0
          /\ IF r.raised
             THEN /\ Propagate(d)
                  /\ UNCHANGED stats
             ELSE IF ~r.ret[1]
             THEN /\ stats' = skip_stats(stats)
                  /\ Return(d, "Skipped")
             ELSE /\ outcome' = [outcome EXCEPT ![d] = "InProgress"]
                  /\ pdfPc' = "open"
                  /\ UNCHANGED <<stats, runPc, idx>>
                  /\ UNCHANGED <<reader, page_num, chunks, exc>>
    /\ interrupted' = resumed(interrupted, idx, compute_file_hash(fileBytes[idx]),
                              config, dbOk, outcome'[idx])
    /\ UNCHANGED <<config, runs>>
    /\ UNCHANGED <<ledger, versions, fileBytes, spCall, fileVars>>
    /\ UNCHANGED <<chunkVars, embedVars, writerVars, cliVars, searchVars>>

\* process_pdf, lines 141-159: between the check and the page loop nothing
\* is written to the ledger: a document in progress has no entry of its own.
ledger_on_start_marked_completed(led, path, hash, cfg) ==
    upsert_document(led, ledger_row(path, hash, cfg, 0, 0, "completed", None, None))

ledger_on_start(led, path, hash, cfg) == led

\* process_pdf, lines 147-156: PdfReader(pdf_path), before the try block.
PdfOpen ==
    /\ pdfPc = "open"
    /\ LET d == idx IN
       IF fileBytes[d] \in {Unreadable, Corrupt}
       THEN /\ Propagate(d)
            /\ UNCHANGED ledger
       ELSE /\ reader' = Some(fileBytes[d])
            /\ chunks' = <<>>
            /\ page_num' = 0
            /\ pdfPc' = "pages"
            /\ ledger' = ledger_on_start(ledger, d, compute_file_hash(fileBytes[d]),
                                         config)
            /\ UNCHANGED <<runPc, idx, outcome, exc>>
    /\ UNCHANGED <<config, stats, runs, attempts, io, checkpointed>>
    /\ UNCHANGED <<versions, fileBytes, faults, spCall, fileVars>>
    /\ UNCHANGED <<chunkVars, embedVars, writerVars, cliVars, resumeVars, searchVars>>

\* _save_chunks: json.dump of the chunk list to the file.
save_chunks(files, d, cs) == [files EXCEPT ![d] = Some(cs)]

\* path.unlink(missing_ok=True)
unlink_skipped(files, d) == files

unlink(files, d) == [files EXCEPT ![d] = None]

\* process_pdf, lines 161-184: one iteration of the page loop.
PdfPage(res, failAt, writeOk) ==
    /\ pdfPc = "pages"
    /\ page_num < Len(PagesOf(reader[1]))
    /\ Fault(failAt = 0 /\ writeOk)
    /\ LET n == page_num + 1
           page == PagesOf(reader[1])[n]
       IN \* no embedding call, no checkpoint write: nothing of them can fail
          /\ (page.raises \/ page.texts = <<>>) => (failAt = 0 /\ writeOk)
          /\ failAt <= NumBatches(page.texts)
          /\ (failAt # 0 \/ n % CheckpointInterval # 0) => writeOk
    /\ LET d == idx
           n == page_num + 1
           page == PagesOf(reader[1])[n]
           r == process_chunks(page.texts, res, failAt, 1, d, n,
                               [processed_chunks |-> <<>>, stats |-> stats])
       IN IF page.raises
          THEN /\ exc' = Some("extract_text failed")
               /\ pdfPc' = "except"
               /\ io' = io \cup {"extract"}
               /\ UNCHANGED <<page_num, chunks, stats, tmpFile, checkpointed>>
          ELSE IF page.texts = <<>>
          THEN /\ page_num' = n
               /\ io' = io \cup {"extract"}
               /\ UNCHANGED <<exc, pdfPc, chunks, stats, tmpFile, checkpointed>>
          ELSE IF r.raised
          THEN /\ stats' = r.stats
               /\ exc' = Some("embedding failed")
               /\ pdfPc' = "except"
               /\ io' = io \cup {"extract", "chunk", "embed"}
               /\ UNCHANGED <<page_num, chunks, tmpFile, checkpointed>>
          ELSE /\ stats' = r.stats
               /\ chunks' = chunks \o r.processed_chunks
               /\ IF n % CheckpointInterval # 0
                  THEN /\ page_num' = n
                       /\ io' = io \cup {"extract", "chunk", "embed"}
                       /\ UNCHANGED <<exc, pdfPc, tmpFile, checkpointed>>
                  ELSE IF writeOk
                  THEN /\ tmpFile' = save_chunks(tmpFile, d, chunks')
                       /\ checkpointed' = n
                       /\ page_num' = n
                       /\ io' = io \cup {"extract", "chunk", "embed", "write_tmp"}
                       /\ UNCHANGED <<exc, pdfPc>>
                  ELSE /\ exc' = Some("checkpoint write failed")
                       /\ pdfPc' = "except"
                       /\ io' = io \cup {"extract", "chunk", "embed"}
                       /\ UNCHANGED <<page_num, tmpFile, checkpointed>>
    /\ UNCHANGED <<config, runPc, idx, runs, reader, outcome, attempts>>
    /\ UNCHANGED <<ledger, versions, fileBytes, spCall, outFile, outConfig>>
    /\ UNCHANGED <<chunkVars, embedVars, writerVars, cliVars, resumeVars, searchVars>>

\* process_pdf, line 187: the final chunk set is written.
PdfSave(writeOk) ==
    /\ pdfPc = "pages"
    /\ page_num = Len(PagesOf(reader[1]))
    /\ Fault(writeOk)
    /\ LET d == idx IN
       IF writeOk
       THEN /\ outFile' = save_chunks(outFile, d, chunks)
            /\ outConfig' = [outConfig EXCEPT ![d] = Some(config)]
            /\ io' = io \cup {"write_out"}
            /\ pdfPc' = "unlink"
            /\ UNCHANGED exc
       ELSE /\ exc' = Some("output write failed")
            /\ pdfPc' = "except"
            /\ UNCHANGED <<outFile, outConfig, io>>
    /\ UNCHANGED <<config, stats, runPc, idx, runs, reader, page_num, chunks,
                   outcome, attempts, checkpointed>>
    /\ UNCHANGED <<ledger, versions, fileBytes, spCall, tmpFile>>
    /\ UNCHANGED <<chunkVars, embedVars, writerVars, cliVars, resumeVars, searchVars>>

\* process_pdf, line 188: the temporary file is removed.
PdfUnlink ==
    /\ pdfPc = "unlink"
    /\ tmpFile' = unlink(tmpFile, idx)
    /\ pdfPc' = "record"
    /\ UNCHANGED <<config, stats, runPc, idx, runs, reader, page_num, chunks, exc,
                   outcome, attempts, io, checkpointed>>
    /\ UNCHANGED <<trackerVars, outFile, outConfig>>
    /\ UNCHANGED <<chunkVars, embedVars, writerVars, cliVars, resumeVars, searchVars>>

\* process_pdf, lines 194-210: record_processing(status="completed").
PdfRecord(dbOk) ==
    /\ pdfPc = "record"
    /\ Fault(dbOk)
    /\ LET d == idx IN
       IF fileBytes[d] = Unreadable \/ ~dbOk
       THEN /\ exc' = Some("record_processing failed")
            /\ pdfPc' = "except"
            /\ UNCHANGED <<ledger, versions, stats, runPc, idx, outcome, io>>
            /\ UNCHANGED <<reader, page_num, chunks>>
       ELSE /\ versions' = insert_version(versions, config)
            /\ ledger' = upsert_document(ledger,
                            ledger_row(d, compute_file_hash(fileBytes[d]), config,
                                       Len(chunks), SumTokens(chunks), "completed",
                                       None, Dict(Len(PagesOf(reader[1])))))
            /\ stats' = [stats EXCEPT !.processed_books = @ + 1]
            /\ io' = io \cup {"ledger_write"}
            /\ Return(d, "Completed")
    /\ UNCHANGED <<config, runs, attempts, checkpointed>>
    /\ UNCHANGED <<fileBytes, spCall, fileVars>>
    /\ UNCHANGED <<chunkVars, embedVars, writerVars, cliVars, resumeVars, searchVars>>

\* process_pdf, lines 212-224: the except clause records the failure,
\* removes the temporary file and re-raises.
PdfExcept(dbOk) ==
    /\ pdfPc = "except"
    /\ Fault(dbOk)
    /\ LET d == idx IN
       IF fileBytes[d] = Unreadable \/ ~dbOk
       THEN /\ Propagate(d)
            /\ UNCHANGED <<ledger, versions, tmpFile, io>>
       ELSE /\ versions' = insert_version(versions, config)
            /\ ledger' = upsert_document(ledger,
                            ledger_row(d, compute_file_hash(fileBytes[d]), config,
                                       0, 0, "failed", exc, None))
            /\ tmpFile' = unlink(tmpFile, d)
            /\ io' = io \cup {"ledger_write"}
            /\ Propagate(d)
    /\ UNCHANGED <<config, stats, runs, attempts, checkpointed>>
    /\ UNCHANGED <<fileBytes, spCall, outFile, outConfig>>
    /\ UNCHANGED <<chunkVars, embedVars, writerVars, cliVars, resumeVars, searchVars>>

\* process_books, lines 268-291: the statistics report.
Report ==
    /\ runPc = "loop" /\ pdfPc = "none" /\ idx > NumDocs
    /\ runPc' = IF stats.total_chunks > 0 \/ stats.skipped_books > 0
                THEN (IF stats.total_chunks = 0
                      THEN "raised"       \* ZeroDivisionError, line 282
                      ELSE "returned")
                ELSE "returned"
    /\ UNCHANGED <<config, stats, idx, runs, pdfPc, reader, page_num, chunks, exc,
                   outcome, attempts, io, checkpointed>>
    /\ UNCHANGED <<trackerVars, fileVars>>
    /\ UNCHANGED <<chunkVars, embedVars, writerVars, cliVars, resumeVars, searchVars>>

\* The process is interrupted inside process_pdf (KeyboardInterrupt or the
\* cancellation asyncio.run turns it into, neither of them an Exception, or
\* the process is killed): no except clause of process_pdf or process_books
\* runs and the files stay as they are. The frame is kept as it was. An
\* interruption counts among the failures of the environment.
\* process_pdf, lines 158 and 226-227: the finally clause, which removes
\* the progress task, runs when the try block has been entered.
finally_runs(pc) == pc \in {"pages", "unlink", "record", "except"}

\* The contents the call of process_pdf for document d works on: those
\* PdfReader read at line 147, or before that line those of the file.
processed_bytes(d) == IF reader # None THEN reader[1] ELSE fileBytes[d]

Interrupt ==
    /\ runPc = "loop"
    /\ pdfPc \in {"open", "pages", "unlink", "record", "except"}
    /\ Fault(FALSE)
    /\ runPc' = "interrupted"
    /\ pdfPc' = "none"
    /\ outcome' = [outcome EXCEPT ![idx] = "Interrupted"]
    /\ interrupted' = Some([doc |-> idx,
                            file_hash |-> compute_file_hash(processed_bytes(idx)),
                            config |-> config,
                            task_removed |-> finally_runs(pdfPc),
                            rechecked |-> "no"])
    /\ UNCHANGED <<config, stats, idx, runs, reader, page_num, chunks, exc,
                   attempts, io, checkpointed>>
    /\ UNCHANGED <<ledger, versions, fileBytes, spCall, fileVars>>
    /\ UNCHANGED <<chunkVars, embedVars, writerVars, cliVars, searchVars>>

\* asyncio.run ends; the indexer is gone.
EndRun ==
    /\ runPc \in {"returned", "raised", "interrupted"}
    /\ runPc' = "idle"
    /\ config' = BaseConfig
    /\ stats' = ZeroStats
    /\ idx' = 0
    /\ outcome' = [d \in Docs |-> "Pending"]
    /\ attempts' = [d \in Docs |-> 0]
    /\ io' = {}
    /\ checkpointed' = 0
    /\ DropLocals
    /\ UNCHANGED <<runs, pdfPc>>
    /\ UNCHANGED <<trackerVars, fileVars>>
    /\ UNCHANGED <<chunkVars, embedVars, writerVars, cliVars, resumeVars, searchVars>>

\* Between two batch runs the environment replaces a document file.
ModifyFile(d, bytes) ==
    /\ runPc = "idle"
    /\ 0 < runs /\ runs < MaxRuns
    /\ fileBytes[d] # bytes
    /\ fileBytes' = [fileBytes EXCEPT ![d] = bytes]
    /\ UNCHANGED <<ledger, versions, faults, spCall>>
    /\ UNCHANGED <<fileVars, pipeVars>>
    /\ UNCHANGED <<chunkVars, embedVars, writerVars, cliVars, resumeVars, searchVars>>

\* While process_pdf works on a document the environment replaces the
\* document's file: PdfReader(pdf_path) has read the file (processor.py:147),
\* record_processing will hash the path again (document_tracker.py:143-145).
\* The replacement is followed when it comes before the first page, and it
\* counts among the failures of the environment.
ModifyInProgress(bytes) ==
    /\ runPc = "loop" /\ pdfPc = "pages" /\ page_num = 0
    /\ fileBytes[idx] = reader[1]
    /\ fileBytes[idx] # bytes
    /\ Fault(FALSE)
    /\ fileBytes' = [fileBytes EXCEPT ![idx] = bytes]
    /\ UNCHANGED <<ledger, versions, spCall>>
    /\ UNCHANGED <<fileVars, pipeVars>>
    /\ UNCHANGED <<chunkVars, embedVars, writerVars, cliVars, resumeVars, searchVars>>

(***************************************************************************)
(* RecordSpec: concurrent calls of DocumentTracker.record_processing       *)
(* (document_tracker.py:122-199). Each call hashes the file, then runs in  *)
(* one transaction the insert into processor_versions, the upsert into     *)
(* processed_documents and the commit. ledger and versions are the         *)
(* committed tables. The tables' unique keys (version_hash, file_path),    *)
(* which the ON CONFLICT clauses name, are those of db/schema.sql; a       *)
(* statement that meets an uncommitted row of another transaction under    *)
(* the same key waits until that transaction ends.                         *)
(***************************************************************************)
NumWriters == 2
Writers == 1..NumWriters

\* What the writers call record_processing with: two calls that differ in
\* the configuration (of the same processor version) and in every argument
\* after it.
RecordCalls ==
    {[config |-> BaseConfig,
      args |-> [chunks_count |-> 2, total_tokens |-> 3, status |-> "completed",
                error_message |-> None, metadata |-> Dict(1)]],
     [config |-> from_indexer(256, 50, "nomic-embed-text", "build-A"),
      args |-> [chunks_count |-> 0, total_tokens |-> 0, status |-> "failed",
                error_message |-> Some("boom"), metadata |-> None]]}

NoRecord ==
    [pc |-> "idle", file_path |-> 0, config |-> BaseConfig,
     args |-> CHOOSE o \in RecordOutcomes : o.status = "completed",
     file_hash |-> compute_file_hash(Unreadable),
     version_pending |-> FALSE]

InTransaction(t) == t.pc \in {"hashed", "versioned", "upserted"}

\* The row a call writes: the parameters of the upsert, lines 177-194.
row_of(t) ==
    ledger_row(t.file_path, t.file_hash, t.config, t.args.chunks_count,
               t.args.total_tokens, t.args.status, t.args.error_message,
               t.args.metadata)

\* Lines 150-158: what the first statement does when a committed row with
\* its version_hash exists (conflict) or not.
version_statement_without_on_conflict(conflict) ==
    IF conflict THEN "raise" ELSE "insert"

version_statement(conflict) ==
    IF conflict THEN "nothing" ELSE "insert"

\* Lines 143-145: record_processing is called and hashes the file.
RecordCall(w, path, call) ==
    /\ txn[w].pc = "idle"
    /\ fileBytes[path] # Unreadable
    /\ txn' = [txn EXCEPT ![w] =
                  [pc |-> "hashed", file_path |-> path, config |-> call.config,
                   args |-> call.args,
                   file_hash |-> compute_file_hash(fileBytes[path]),
                   version_pending |-> FALSE]]
    /\ UNCHANGED <<trackerVars, fileVars, pipeVars, chunkVars, embedVars, cliVars, resumeVars, searchVars>>

\* Lines 150-158: INSERT INTO processor_versions ... ON CONFLICT DO NOTHING.
RecordInsertVersion(w) ==
    /\ txn[w].pc = "hashed"
    /\ ~\E u \in Writers \ {w} :
           /\ InTransaction(txn[u]) /\ txn[u].version_pending
           /\ txn[u].config.processor_version = txn[w].config.processor_version
    /\ LET conflict == \E v \in versions :
                           v.version_hash = txn[w].config.processor_version
           does == version_statement(conflict)
       IN txn' = [txn EXCEPT ![w].pc = IF does = "raise" THEN "raised" ELSE "versioned",
                             ![w].version_pending = (does = "insert")]
    /\ UNCHANGED <<trackerVars, fileVars, pipeVars, chunkVars, embedVars, cliVars, resumeVars, searchVars>>

\* Lines 160-196: INSERT INTO processed_documents ... ON CONFLICT (file_path)
\* DO UPDATE SET every column.
RecordUpsert(w) ==
    /\ txn[w].pc = "versioned"
    /\ ~\E u \in Writers \ {w} :
           txn[u].pc = "upserted" /\ txn[u].file_path = txn[w].file_path
    /\ txn' = [txn EXCEPT ![w].pc = "upserted"]
    /\ UNCHANGED <<trackerVars, fileVars, pipeVars, chunkVars, embedVars, cliVars, resumeVars, searchVars>>

\* Line 196: conn.commit(). The calls that had committed an entry for the
\* same path before are no longer the latest ones ("overwritten").
RecordCommit(w) ==
    /\ txn[w].pc = "upserted"
    /\ versions' = IF txn[w].version_pending
                   THEN insert_version(versions, txn[w].config)
                   ELSE versions
    /\ ledger' = upsert_document(ledger, row_of(txn[w]))
    /\ txn' = [u \in Writers |->
                  IF u = w THEN [txn[u] EXCEPT !.pc = "committed"]
                  ELSE IF txn[u].pc = "committed" /\ txn[u].file_path = txn[w].file_path
                  THEN [txn[u] EXCEPT !.pc = "overwritten"]
                  ELSE txn[u]]
    /\ UNCHANGED <<fileBytes, faults, spCall>>
    /\ UNCHANGED <<fileVars, pipeVars, chunkVars, embedVars, cliVars, resumeVars, searchVars>>

\* The connection fails inside the transaction: the with block rolls back
\* and record_processing raises.
RecordRollback(w) ==
    /\ InTransaction(txn[w])
    /\ Fault(FALSE)
    /\ txn' = [txn EXCEPT ![w].pc = "raised", ![w].version_pending = FALSE]
    /\ UNCHANGED <<ledger, versions, fileBytes, spCall>>
    /\ UNCHANGED <<fileVars, pipeVars, chunkVars, embedVars, cliVars, resumeVars, searchVars>>

\* record_processing returns or raises to its caller.
RecordReturn(w) ==
    /\ txn[w].pc \in {"committed", "overwritten", "raised"}
    /\ txn' = [txn EXCEPT ![w] = NoRecord]
    /\ UNCHANGED <<trackerVars, fileVars, pipeVars, chunkVars, embedVars, cliVars, resumeVars, searchVars>>

WritersIdle == txn = [w \in Writers |-> NoRecord]

(***************************************************************************)
(* The command `kbol process` (cli/commands/process.py). process() runs    *)
(* process_impl under asyncio.run; process_impl constructs the indexer and *)
(* calls indexer.process_books(books_dir, force=force) (line 29), but      *)
(* BookIndexer.process_books (processor.py:237) takes books_dir only: the  *)
(* call raises TypeError before the body of process_books runs, whatever   *)
(* the value of force. The command ends with exit code 1 (lines 34-36 and  *)
(* 89-91); no document file and no ledger row has been read or written.    *)
(* The constructor connects to the database (DocumentTracker.__init__),    *)
(* and when that fails the command ends the same way.                      *)
(***************************************************************************)
NoCommand == [invoked |-> FALSE, force |-> FALSE, error |-> None, exit_code |-> None]

\* What the keyword arguments of the call at process.py:29 bind to, given
\* the parameters of process_books: "force" names no parameter.
process_books_parameters == {"self", "books_dir"}

call_process_books(keywords) ==
    IF keywords \subseteq process_books_parameters THEN None ELSE Some("TypeError")

ProcessCommand(force, dbOk) ==
    /\ runPc = "idle"
    /\ ~command.invoked
    /\ Fault(dbOk)
    /\ command' = [invoked |-> TRUE,
                   force |-> force,
                   error |-> IF ~dbOk THEN Some("OperationalError")
                             ELSE call_process_books({"force"}),
                   exit_code |-> Some(1)]
    /\ UNCHANGED <<ledger, versions, fileBytes, spCall>>
    /\ UNCHANGED <<fileVars, pipeVars>>
    /\ UNCHANGED <<chunkVars, embedVars, writerVars, resumeVars, searchVars>>

\* The process of the command has exited.
CommandExit ==
    /\ command.invoked
    /\ command' = NoCommand
    /\ UNCHANGED <<trackerVars, fileVars, pipeVars>>
    /\ UNCHANGED <<chunkVars, embedVars, writerVars, resumeVars, searchVars>>

CliIdle == command = NoCommand

HistoryIdle == interrupted = None

\* A similarity that is a number: num / sqrt(den2).
Real(num, den2) == [nan |-> FALSE, num |-> num, den2 |-> den2]

\* No call of search_chunks was made.
SearchIdle ==
    /\ srPc = "idle" /\ query_embedding = None /\ top_k = 0
    /\ similarity_threshold = Real(0, 1)
    /\ all_chunks = <<>> /\ returned = None


(***************************************************************************)
(* Initial states and specifications.                                      *)
(***************************************************************************)
\* BookIndexer.__init__: max_retries: int = 3
DefaultMaxRetries == 3

PipeIdle ==
    /\ config = BaseConfig
    /\ stats = ZeroStats
    /\ runPc = "idle" /\ idx = 0 /\ runs = 0 /\ pdfPc = "none" /\ page_num = 0
    /\ reader = None
    /\ chunks = <<>> /\ exc = None
    /\ outcome = [d \in Docs |-> "Pending"]
    /\ attempts = [d \in Docs |-> 0]
    /\ io = {}
    /\ checkpointed = 0

FilesIdle ==
    /\ outFile = [d \in Docs |-> None]
    /\ outConfig = [d \in Docs |-> None]
    /\ tmpFile = [d \in Docs |-> None]

ChunkIdle ==
    /\ tokens = <<>> /\ chunk_size = 1 /\ chunk_overlap = 0 /\ start = 0
    /\ chunk_indices = <<>> /\ ckPc = "idle"

EmbedIdle ==
    /\ embPc = "idle" /\ chunk_texts = <<>> /\ batch_start = 0 /\ attempt = 0
    /\ responses = <<>> /\ arrival = <<>> /\ batch_embeddings = None
    /\ processed_chunks = <<>>
    /\ max_retries = DefaultMaxRetries /\ batch_log = <<>> /\ call_batch = None

LedgerInit ==
    /\ ledger = {}
    /\ versions = {}
    /\ fileBytes \in [Docs -> ReadableBytes]
    /\ \A d \in Docs \ TrackerPaths : fileBytes[d] = 1
    /\ spCall = NoCall
    /\ faults = 0
    /\ FilesIdle /\ PipeIdle /\ ChunkIdle /\ EmbedIdle /\ WritersIdle /\ CliIdle /\ HistoryIdle /\ SearchIdle

LedgerNext ==
    \/ \E p \in TrackerPaths, c \in Configs, f \in BOOLEAN, ok \in BOOLEAN :
           TrackerShouldProcess(p, c, f, ok)
    \/ TrackerShouldProcessAgain
    \/ \E p \in TrackerPaths, c \in Configs, o \in RecordOutcomes :
           TrackerRecord(p, c, o)
    \/ TrackerReturn
    \/ TrackerResetTracking
    \/ TrackerClearAll
    \/ \E p \in TrackerPaths, b \in ReadableBytes \cup {Unreadable} :
           TrackerModifyFile(p, b)

LedgerSpec == LedgerInit /\ [][LedgerNext]_vars

\* reset_tracking and clear_all, called while no record call is running.
RecordResetTracking == WritersIdle /\ TrackerResetTracking

RecordClearAll == WritersIdle /\ TrackerClearAll

RecordInit ==
    /\ ledger = {}
    /\ versions = {}
    /\ fileBytes = [d \in Docs |-> 1]
    /\ spCall = NoCall
    /\ faults = 0
    /\ WritersIdle /\ CliIdle /\ HistoryIdle /\ SearchIdle
    /\ FilesIdle /\ PipeIdle /\ ChunkIdle /\ EmbedIdle

RecordNext ==
    \/ \E w \in Writers, p \in TrackerPaths, c \in RecordCalls : RecordCall(w, p, c)
    \/ \E w \in Writers : RecordInsertVersion(w)
    \/ \E w \in Writers : RecordUpsert(w)
    \/ \E w \in Writers : RecordCommit(w)
    \/ \E w \in Writers : RecordRollback(w)
    \/ \E w \in Writers : RecordReturn(w)
    \/ RecordResetTracking
    \/ RecordClearAll
    \/ TrackerModifyFile(1, 2)

RecordSpec == RecordInit /\ [][RecordNext]_vars

Init ==
    /\ ledger = {}
    /\ versions = {}
    /\ fileBytes \in [Docs -> PipeBytes]
    /\ spCall = NoCall
    /\ faults = 0
    /\ FilesIdle /\ PipeIdle /\ ChunkIdle /\ EmbedIdle /\ WritersIdle /\ CliIdle /\ HistoryIdle /\ SearchIdle

Next ==
    \/ \E c \in RunConfigs : StartRun(c)
    \/ \E ok \in BOOLEAN : PdfCheck(ok)
    \/ PdfOpen
    \/ \E res \in [1..MaxPageChunks -> {"vec", "none"}], failAt \in 0..1,
          ok \in BOOLEAN :
           PdfPage(res, failAt, ok)
    \/ \E ok \in BOOLEAN : PdfSave(ok)
    \/ PdfUnlink
    \/ \E ok \in BOOLEAN : PdfRecord(ok)
    \/ \E ok \in BOOLEAN : PdfExcept(ok)
    \/ Report
    \/ Interrupt
    \/ EndRun
    \/ \E d \in Docs, b \in ReplacementBytes : ModifyFile(d, b)
    \/ \E b \in ReplacementBytes : ModifyInProgress(b)
    \/ \E f \in BOOLEAN, ok \in BOOLEAN : ProcessCommand(f, ok)
    \/ CommandExit

Spec == Init /\ [][Next]_vars

(***************************************************************************)
(* SearchSpec: search_chunks (core/search.py:7-37) over the files of       *)
(* data/processed, with cosine_similarity (core/embedding.py:26-30).       *)
(* Vectors have two integer components. A similarity is kept exactly, as   *)
(* the pair (num, den2) that stands for num / sqrt(den2), den2 > 0; the    *)
(* quotient 0.0 / 0.0 of a zero-norm vector is numpy's nan.                *)
(***************************************************************************)
NaN == [nan |-> TRUE, num |-> 0, den2 |-> 1]

dot(a, b) == a[1] * b[1] + a[2] * b[2]

\* np.dot(a, b) / (np.linalg.norm(a) * np.linalg.norm(b))
cosine_similarity(a, b) ==
    IF dot(a, a) * dot(b, b) = 0 THEN NaN ELSE Real(dot(a, b), dot(a, a) * dot(b, b))

\* x > y on floats: False whenever an operand is nan.
greater(x, y) ==
    IF x.nan \/ y.nan THEN FALSE
    ELSE IF x.num >= 0 /\ y.num < 0 THEN TRUE
    ELSE IF x.num < 0 /\ y.num >= 0 THEN FALSE
    ELSE IF x.num >= 0 THEN x.num * x.num * y.den2 > y.num * y.num * x.den2
    ELSE x.num * x.num * y.den2 < y.num * y.num * x.den2

\* The files Path("data/processed").glob("*.json") yields: the pattern
\* matches <stem>.json and <stem>.tmp.json alike.
glob ==
    {<<"out", d>> : d \in {e \in Docs : outFile[e] # None}}
        \cup {<<"tmp", d>> : d \in {e \in Docs : tmpFile[e] # None}}

\* json.load of a file of the directory.
load(file) == IF file[1] = "out" THEN outFile[file[2]][1] ELSE tmpFile[file[2]][1]

\* all_chunks after the loop over the files, taken in the given order.
RECURSIVE load_all(_)
load_all(files) ==
    IF files = <<>> THEN <<>> ELSE load(Head(files)) \o load_all(Tail(files))

\* The orders in which glob may yield a set of files.
Orders(files) ==
    {o \in [1..Cardinality(files) -> files] :
        \A i, j \in 1..Cardinality(files) : i # j => o[i] # o[j]}

\* chunk["similarity"] = cosine_similarity(query_embedding, chunk["embedding"])
with_similarity(chunk, q) ==
    [book |-> chunk.book, page |-> chunk.page, content |-> chunk.content,
     embedding |-> chunk.embedding, token_count |-> chunk.token_count,
     similarity |-> cosine_similarity(q, chunk.embedding)]

\* [c for c in all_chunks if c["similarity"] > similarity_threshold]
RECURSIVE relevant_chunks(_, _)
relevant_chunks(cs, threshold) ==
    IF cs = <<>> THEN <<>>
    ELSE (IF greater(Head(cs).similarity, threshold) THEN <<Head(cs)>> ELSE <<>>)
         \o relevant_chunks(Tail(cs), threshold)

\* sorted(..., key=lambda x: x["similarity"], reverse=True): a stable sort,
\* equal keys staying in their order. insert puts c after every element
\* that is not smaller than it.
RECURSIVE insert_desc(_, _)
insert_desc(sorted, c) ==
    IF sorted = <<>> THEN <<c>>
    ELSE IF greater(c.similarity, Head(sorted).similarity)
    THEN <<c>> \o sorted
    ELSE <<Head(sorted)>> \o insert_desc(Tail(sorted), c)

RECURSIVE sorted_desc(_)
sorted_desc(cs) ==
    IF cs = <<>> THEN <<>>
    ELSE insert_desc(sorted_desc(SubSeq(cs, 1, Len(cs) - 1)), cs[Len(cs)])

\* s[:top_k] for top_k >= 0
truncate_one_more(s, k) == SubSeq(s, 1, Min(k + 1, Len(s)))

truncate(s, k) == SubSeq(s, 1, Min(k, Len(s)))

\* Bounds of the search calls followed.
MaxTopK == 3
MaxFileChunks == 2

\* The embeddings the service returns for a query, the zero vector included.
QueryVectors == {<<1, 0>>, <<0, 1>>, <<-1, 1>>, <<0, 0>>}

\* similarity_threshold: 0 (the default), 1/2 and -1.
Thresholds == {Real(0, 1), Real(1, 4), Real(-1, 1)}

\* The chunk records a file of document d may hold: those the pipeline
\* writes for the texts of the model, and one whose stored embedding is the
\* zero vector.
StoredChunks(d) ==
    {chunk_object(d, 1, "alpha", Some(embedding_of("alpha"))),
     chunk_object(d, 2, "beta gamma", Some(embedding_of("beta gamma"))),
     chunk_object(d, 3, "delta", Some(embedding_of("delta"))),
     chunk_object(d, 4, "delta", Some(<<0, 0>>))}

FileContents(d) ==
    {None} \cup {Some(s) : s \in UNION {[1..n -> StoredChunks(d)] :
                                          n \in 0..(IF d = 1 THEN MaxFileChunks ELSE 1)}}

\* The temporary file of document d while its call is in progress, or after
\* the call was interrupted: the chunks saved at a checkpoint.
CheckpointContents(d) ==
    IF d = 1 THEN {None}
    ELSE {None, Some(<<chunk_object(d, 1, "alpha", Some(embedding_of("alpha")))>>)}

\* get_embedding(query), lines 12-13: the call of search_chunks begins; the
\* embedding request may fail, which ends the call.
SearchCall(q, k, threshold, ok) ==
    /\ srPc = "idle"
    /\ srPc' = IF ok THEN "load" ELSE "raised"
    /\ query_embedding' = IF ok THEN Some(q) ELSE None
    /\ top_k' = k
    /\ similarity_threshold' = threshold
    /\ all_chunks' = <<>>
    /\ returned' = None
    /\ UNCHANGED <<trackerVars, fileVars, pipeVars, chunkVars, embedVars, writerVars, cliVars, resumeVars>>

\* Lines 16-22: every file of the directory is loaded; no chunk at all
\* returns [].
SearchLoad(order) ==
    /\ srPc = "load"
    /\ order \in Orders(glob)
    /\ all_chunks' = load_all(order)
    /\ IF all_chunks' = <<>>
       THEN srPc' = "returned" /\ returned' = Some(<<>>)
       ELSE srPc' = "rank" /\ UNCHANGED returned
    /\ UNCHANGED <<query_embedding, top_k, similarity_threshold>>
    /\ UNCHANGED <<trackerVars, fileVars, pipeVars, chunkVars, embedVars, writerVars, cliVars, resumeVars>>

\* Lines 24-35: similarities, filter, sort, truncation.
SearchRank ==
    /\ srPc = "rank"
    /\ all_chunks' = [i \in 1..Len(all_chunks) |->
                         with_similarity(all_chunks[i], query_embedding[1])]
    /\ returned' = Some(truncate(sorted_desc(relevant_chunks(all_chunks',
                                                            similarity_threshold)),
                                top_k))
    /\ srPc' = "returned"
    /\ UNCHANGED <<query_embedding, top_k, similarity_threshold>>
    /\ UNCHANGED <<trackerVars, fileVars, pipeVars, chunkVars, embedVars, writerVars, cliVars, resumeVars>>

\* search_chunks is called once, over any contents of data/processed: a
\* permanent file per document, and for the second document possibly the
\* temporary file of a call that is in progress or was interrupted.
SearchInit ==
    /\ outFile \in [Docs -> UNION {FileContents(d) : d \in Docs}]
    /\ \A d \in Docs : outFile[d] \in FileContents(d)
    /\ outConfig = [d \in Docs |-> IF outFile[d] = None THEN None ELSE Some(BaseConfig)]
    /\ tmpFile \in [Docs -> UNION {CheckpointContents(d) : d \in Docs}]
    /\ \A d \in Docs : tmpFile[d] \in CheckpointContents(d)
    /\ ledger = {} /\ versions = {} /\ spCall = NoCall /\ faults = 0
    /\ fileBytes = [d \in Docs |-> 2]
    /\ PipeIdle /\ ChunkIdle /\ EmbedIdle /\ WritersIdle /\ CliIdle /\ HistoryIdle
    /\ SearchIdle

SearchNext ==
    \/ \E q \in QueryVectors, k \in 0..MaxTopK, t \in Thresholds, ok \in BOOLEAN :
           SearchCall(q, k, t, ok)
    \/ \E order \in Orders(glob) : SearchLoad(order)
    \/ SearchRank

SearchSpec == SearchInit /\ [][SearchNext]_vars

(***************************************************************************)
(* Claims about DocumentTracker.should_process (under LedgerSpec).         *)
(***************************************************************************)
\* The rows of the ledger for a path whose stored hash and four
\* configuration fields equal the file's current hash and the given config.
MatchingEntries(path, cfg) ==
    {r \in ledger : /\ r.file_path = path
                    /\ r.file_hash = compute_file_hash(fileBytes[path])
                    /\ r.chunk_size = cfg.chunk_size
                    /\ r.chunk_overlap = cfg.chunk_overlap
                    /\ r.embed_model = cfg.embed_model
                    /\ r.processor_version = cfg.processor_version}

\* The answer the decision table gives for a call.
DecisionTable(path, cfg, force) ==
    IF force THEN <<TRUE, None>>
    ELSE IF \E r \in MatchingEntries(path, cfg) : r.status = "completed"
    THEN <<FALSE, None>>
    ELSE IF \E r \in MatchingEntries(path, cfg) : r.status = "failed"
    THEN <<TRUE, (CHOOSE r \in MatchingEntries(path, cfg) : r.status = "failed").error_message>>
    ELSE <<TRUE, None>>

\* C2: every call should_process(file_path, config, force) that can read the
\* file and that the database answers returns exactly what the decision
\* table says: (true, none) when force is set, and then without reading the
\* file or the ledger; otherwise (false, none) for a matching completed
\* entry, (true, last_error) for a matching failed entry, (true, none) when no
\* entry matches.
C2_ShouldProcessDecisionTable ==
    (/\ spCall.called
     /\ spCall.db_answers
     /\ spCall.force \/ fileBytes[spCall.file_path] # Unreadable) =>
        /\ ~spCall.result.raised
        /\ spCall.result.ret = DecisionTable(spCall.file_path, spCall.config, spCall.force)
        /\ spCall.force => (~spCall.result.hashed /\ ~spCall.result.queried)

\* A call without force found a matching completed entry and answered
\* (false, none), while the other path's entry is a failed one.
C2_Witness ==
    /\ spCall.called /\ ~spCall.force
    /\ spCall.result.ret = <<FALSE, None>>
    /\ \E r \in ledger : r.file_path # spCall.file_path /\ r.status = "failed"

\* The ledger's entry for the path stores other file bytes or another value
\* of one of the four configuration fields than the current ones.
EntryDiffers(path, cfg) ==
    \E r \in ledger :
        /\ r.file_path = path
        /\ \/ r.file_hash # compute_file_hash(fileBytes[path])
           \/ r.chunk_size # cfg.chunk_size
           \/ r.chunk_overlap # cfg.chunk_overlap
           \/ r.embed_model # cfg.embed_model
           \/ r.processor_version # cfg.processor_version

\* C3: cache invalidation. In every ledger state reached by record calls, if
\* the file's bytes or any one of chunk_size, chunk_overlap, embed_model,
\* processor_version differs from what the path's entry stores, a call of
\* should_process without force (on a file it can read, the database
\* answering) returns true, also for a completed entry.
C3_CacheInvalidation ==
    (/\ spCall.called /\ ~spCall.force
     /\ spCall.db_answers
     /\ fileBytes[spCall.file_path] # Unreadable
     /\ EntryDiffers(spCall.file_path, spCall.config)) =>
        (~spCall.result.raised /\ spCall.result.ret[1] = TRUE)

\* A call without force answered (true, none) for a path whose entry is
\* completed and differs from the current values in the processor version
\* alone.
C3_Witness ==
    /\ spCall.called /\ ~spCall.force
    /\ spCall.result.ret = <<TRUE, None>>
    /\ \E r \in ledger :
          /\ r.file_path = spCall.file_path
          /\ r.status = "completed"
          /\ r.file_hash = compute_file_hash(fileBytes[spCall.file_path])
          /\ r.processor_version # spCall.config.processor_version
          /\ r.chunk_size = spCall.config.chunk_size
          /\ r.chunk_overlap = spCall.config.chunk_overlap
          /\ r.embed_model = spCall.config.embed_model

(***************************************************************************)
(* Claims about BookIndexer.process_pdf and process_books (under Spec).    *)
(***************************************************************************)
FinalOutcomes == {"Skipped", "Completed", "Failed"}

\* The document the batch loop is at has a completed entry whose hash and
\* configuration equal the current ones, and process_pdf is about to be
\* called for it.
CompletedEntryMatches ==
    /\ runPc = "loop" /\ pdfPc = "none" /\ idx \in Docs
    /\ outcome[idx] = "Pending"
    /\ \E r \in MatchingEntries(idx, config) : r.status = "completed"

\* C1: idempotent re-run. When the document's entry is completed and matches
\* the current hash and configuration, the call of process_pdf (the ledger
\* query answering) takes the document from Pending to Skipped, does no
\* extraction, chunking or embedding, writes neither the output nor the
\* temporary file, leaves the ledger as it is and adds exactly one to
\* skipped_books.
C1_IdempotentRerun ==
    [][(CompletedEntryMatches /\ attempts' # attempts /\ faults' = faults) =>
          /\ outcome'[idx] = "Skipped"
          /\ io' = {}
          /\ UNCHANGED <<ledger, versions, outFile, outConfig, tmpFile>>
          /\ stats' = [stats EXCEPT !.skipped_books = @ + 1]]_vars

\* A second run has skipped a document that an earlier run completed.
C1_Witness ==
    /\ runs = 2
    /\ \E d \in Docs :
          /\ outcome[d] = "Skipped"
          /\ outFile[d] # None
          /\ stats.skipped_books > 0

\* C4: at the end of a batch run every document whose attempt ended in
\* failure has a ledger entry for its path with status failed and a
\* non-empty error message.
C4_FailedDocumentsAreRecorded ==
    runPc \in {"returned", "raised"} =>
        \A d \in Docs :
            outcome[d] = "Failed" =>
                \E r \in ledger : /\ r.file_path = d
                                  /\ r.status = "failed"
                                  /\ r.error_message # None
                                  /\ r.error_message # Some("")

\* C5: failure isolation. The batch loop attempts every document exactly
\* once: no document is attempted twice, the documents the loop has passed
\* have reached Skipped, Completed or Failed, and process_books ends only
\* when every document of the directory has.
C5_FailureIsolation ==
    /\ \A d \in Docs : attempts[d] <= 1
    /\ runPc = "loop" =>
          \A d \in Docs : d < idx => (attempts[d] = 1 /\ outcome[d] \in FinalOutcomes)
    /\ runPc \in {"returned", "raised"} =>
          \A d \in Docs : attempts[d] = 1 /\ outcome[d] \in FinalOutcomes

\* A document failed and a later document of the same run was completed.
C5_Witness ==
    \E d1, d2 \in Docs :
        /\ d1 < d2
        /\ outcome[d1] = "Failed"
        /\ outcome[d2] = "Completed"
        /\ attempts[d2] = 1

\* C6: a batch run always completes: process_books never ends by raising.
C6_RunReturnsNormally == runPc # "raised"

(***************************************************************************)
(* ChunkSpec: TextChunker.chunk_text (chunker.py:10-48).                   *)
(* A token is the string of characters it decodes to, written as a tuple   *)
(* of one-character strings; a text is the concatenation of its tokens.    *)
(***************************************************************************)
Vocab == {<<"a">>, <<" ">>, <<".">>, <<"b", ".">>}
MaxTokens == 5
MaxChunkSize == 4
\* chunk_text is followed for at most this many windows.
MaxWindows == 8

TokenSeqs == UNION {[1..n -> Vocab] : n \in 0..MaxTokens}

Max(a, b) == IF a > b THEN a ELSE b

\* self.tokenizer.decode(tokens): the characters of the tokens, in order.
RECURSIVE decode(_)
decode(toks) == IF toks = <<>> THEN <<>> ELSE Head(toks) \o decode(Tail(toks))

\* Python's s[a:b]: a negative index counts from the end, and both are
\* clamped to the sequence.
py_index(i, n) == IF i < 0 THEN Max(i + n, 0) ELSE Min(i, n)

py_slice(s, a, b) ==
    LET lo == py_index(a, Len(s))
        hi == py_index(b, Len(s))
    IN IF lo < hi THEN SubSeq(s, lo + 1, hi) ELSE <<>>

\* str.rindex(ch): the highest 0-based character index at which ch occurs.
rindex(s, ch) ==
    CHOOSE i \in 0..(Len(s) - 1) :
        s[i + 1] = ch /\ \A j \in (i + 2)..Len(s) : s[j] # ch

\* str.strip(): without leading and trailing whitespace.
RECURSIVE lstrip(_)
lstrip(s) == IF s # <<>> /\ Head(s) = " " THEN lstrip(Tail(s)) ELSE s

RECURSIVE rstrip(_)
rstrip(s) ==
    IF s # <<>> /\ s[Len(s)] = " " THEN rstrip(SubSeq(s, 1, Len(s) - 1)) ELSE s

strip_nothing(s) == s

strip(s) == rstrip(lstrip(s))

\* Lines 23-36: the end of the window that starts at st.
window_end(toks, size, overlap, st) ==
    LET end == st + size IN
    IF end < Len(toks)
    THEN LET overlap_start == Max(0, end - overlap)
             text_segment == decode(py_slice(toks, overlap_start, end))
         IN IF \E i \in 1..Len(text_segment) : text_segment[i] = "."
            THEN overlap_start + rindex(text_segment, ".") + 1
            ELSE end
    ELSE end

\* Lines 41-46: the chunks of the windows, stripped, the empty ones dropped.
RECURSIVE decode_chunks(_, _)
decode_chunks(toks, indices) ==
    IF indices = <<>>
    THEN <<>>
    ELSE LET chunk_text == strip(decode(py_slice(toks, Head(indices)[1], Head(indices)[2])))
         IN (IF chunk_text # <<>> THEN <<chunk_text>> ELSE <<>>)
            \o decode_chunks(toks, Tail(indices))

\* TextChunker.__init__, lines 5-8: the arguments are stored as they are;
\* nothing compares chunk_overlap with chunk_size.
ChunkConstruct ==
    /\ ckPc = "new"
    /\ ckPc' = "entry"
    /\ UNCHANGED <<tokens, chunk_size, chunk_overlap, start, chunk_indices>>
    /\ UNCHANGED <<trackerVars, fileVars, pipeVars, embedVars, writerVars, cliVars, resumeVars, searchVars>>

\* Lines 12-20: an empty or blank text returns []; otherwise the loop starts.
ChunkEnter ==
    /\ ckPc = "entry"
    /\ ckPc' = IF strip(decode(tokens)) = <<>> THEN "done" ELSE "loop"
    /\ start' = 0
    /\ chunk_indices' = <<>>
    /\ UNCHANGED <<tokens, chunk_size, chunk_overlap>>
    /\ UNCHANGED <<trackerVars, fileVars, pipeVars, embedVars, writerVars, cliVars, resumeVars, searchVars>>

\* Lines 21-39: one iteration of the while loop.
ChunkWindow ==
    /\ ckPc = "loop"
    /\ start < Len(tokens)
    /\ Len(chunk_indices) < MaxWindows
    /\ LET end == window_end(tokens, chunk_size, chunk_overlap, start)
       IN /\ chunk_indices' = Append(chunk_indices, <<start, Min(end, Len(tokens))>>)
          /\ start' = end - chunk_overlap
    /\ UNCHANGED <<tokens, chunk_size, chunk_overlap, ckPc>>
    /\ UNCHANGED <<trackerVars, fileVars, pipeVars, embedVars, writerVars, cliVars, resumeVars, searchVars>>

\* Lines 41-48: the loop has ended; chunk_text returns
\* decode_chunks(tokens, chunk_indices).
ChunkReturn ==
    /\ ckPc = "loop"
    /\ start >= Len(tokens)
    /\ ckPc' = "done"
    /\ UNCHANGED <<tokens, chunk_size, chunk_overlap, start, chunk_indices>>
    /\ UNCHANGED <<trackerVars, fileVars, pipeVars, embedVars, writerVars, cliVars, resumeVars, searchVars>>

\* TextChunker(chunk_size, chunk_overlap) is about to be constructed with
\* any pair of arguments, and chunk_text to be called on any text of the
\* vocabulary.
ChunkInit ==
    /\ tokens \in TokenSeqs
    /\ chunk_size \in 1..MaxChunkSize
    /\ chunk_overlap \in 0..MaxChunkSize
    /\ start = 0
    /\ chunk_indices = <<>>
    /\ ckPc = "new"
    /\ ledger = {} /\ versions = {} /\ spCall = NoCall /\ faults = 0
    /\ fileBytes = [d \in Docs |-> 2]
    /\ FilesIdle /\ PipeIdle /\ EmbedIdle /\ WritersIdle /\ CliIdle /\ HistoryIdle /\ SearchIdle

ChunkNext == ChunkConstruct \/ ChunkEnter \/ ChunkWindow \/ ChunkReturn

ChunkSpec == ChunkInit /\ [][ChunkNext]_vars

\* C7: with chunk_overlap < chunk_size the window loop terminates. The next
\* start is a function of the current start alone (tokens and
\* configuration are fixed), so the loop
\* ends exactly when no start is taken twice: no two windows begin at the
\* same token, and the loop does not stand at the start of an earlier window.
C7_WindowLoopTerminates ==
    chunk_overlap < chunk_size =>
    /\ \A i, j \in 1..Len(chunk_indices) :
          i < j => chunk_indices[i][1] # chunk_indices[j][1]
    /\ ckPc = "loop" =>
          \A i \in 1..Len(chunk_indices) : chunk_indices[i][1] # start

\* C8: with chunk_overlap < chunk_size each window [start, end) chunk_text
\* emits spans at most chunk_size tokens.
C8_WindowWithinChunkSize ==
    chunk_overlap < chunk_size =>
    \A i \in 1..Len(chunk_indices) :
        chunk_indices[i][2] - chunk_indices[i][1] <= chunk_size

(***************************************************************************)
(* EmbedSpec: BookIndexer._process_chunks (processor.py:69-117) calling    *)
(* Embedder.get_embeddings_batch (embedder.py:10-32), whose requests are   *)
(* in flight together and complete in any order.                           *)
(***************************************************************************)
Texts == {"alpha", "beta gamma", "delta"}
MaxChunks == 3
\* The constructor takes any max_retries; 0..MaxRetries are followed.
MaxRetries == 2

\* How a request ends:
\*   vec      status 200, body {"embedding": [...]};
\*   exc      the request raises (timeout, connection error): gather, with
\*            return_exceptions=True, hands the exception over as the result;
\*   errbody  an error status with a JSON body that has no "embedding";
\*   nonjson  a body that is no JSON (response.json() raises).
ResponseKinds == {"vec", "exc", "errbody", "nonjson"}

Pending == [prompt |-> "", kind |-> "pending", vector |-> <<>>]

\* The service's answer to the request that sent `prompt`.
response_to(prompt, kind) ==
    [prompt |-> prompt, kind |-> kind,
     vector |-> IF kind = "vec" THEN embedding_of(prompt) ELSE <<>>]

\* batch = chunks[i : i + self.batch_size]
current_batch == py_slice(chunk_texts, batch_start, batch_start + batch_size)

\* asyncio.gather(*tasks, return_exceptions=True): the results in the order
\* of the tasks, whatever the order the requests completed in.
gather_in_completion_order(resp, order) == [k \in 1..Len(resp) |-> resp[order[k]]]

gather(resp, order) == [k \in 1..Len(resp) |-> resp[k]]

\* embedder.py:25-30, one response: None for an exception, otherwise
\* response.json().get("embedding").
parse_response(r) == IF r.kind = "vec" THEN Some(r.vector) ELSE None

\* response.json() raises for this response.
json_raises(r) == r.kind = "nonjson"

embedOthers == <<config, runPc, idx, runs, pdfPc, reader, page_num, chunks, exc,
                 outcome, attempts, io, checkpointed>>

\* An entry of batch_log: a call of get_embeddings_batch, its raising or
\* returning, or asyncio.sleep(seconds).
Event(ev, seconds) == [ev |-> ev, seconds |-> seconds]

\* Lines 90-95: after the attempt-th call raised, the last attempt of
\* range(self.max_retries) re-raises and an earlier one sleeps.
after_failed_attempt_once_more(att, retries) ==
    IF att = retries THEN "raise" ELSE "sleep"

after_failed_attempt(att, retries) ==
    IF att = retries - 1 THEN "raise" ELSE "sleep"

\* Line 95: asyncio.sleep(1 * (attempt + 1))
backoff(att) == 1 * (att + 1)

\* Lines 81-86: the batch loop takes the next batch, or the method returns.
\* With an empty range(self.max_retries) no call is made and line 98 reads
\* `embeddings` as the earlier batches left it (unbound: UnboundLocalError).
EmbedBatch ==
    /\ embPc = "batch"
    /\ IF batch_start >= Len(chunk_texts)
       THEN /\ embPc' = "returned"
            /\ UNCHANGED <<attempt, responses, arrival, batch_log>>
       ELSE IF max_retries <= 0
       THEN /\ embPc' = IF batch_embeddings = None THEN "raised" ELSE "assemble"
            /\ batch_log' = <<>>
            /\ UNCHANGED <<attempt, responses, arrival>>
       ELSE \* embedder.py:13-20: one request per text of the batch
            /\ embPc' = "inflight"
            /\ attempt' = 0
            /\ responses' = [k \in 1..Len(current_batch) |-> Pending]
            /\ arrival' = <<>>
            /\ batch_log' = <<Event("call", 0)>>
    /\ UNCHANGED <<chunk_texts, batch_start, batch_embeddings, processed_chunks,
                   max_retries, call_batch, stats>>
    /\ UNCHANGED <<trackerVars, fileVars, embedOthers, chunkVars, writerVars, cliVars, resumeVars, searchVars>>

\* One of the requests in flight completes.
EmbedComplete(pos, kind) ==
    /\ embPc = "inflight"
    /\ pos \in 1..Len(responses)
    /\ responses[pos] = Pending
    /\ responses' = [responses EXCEPT ![pos] = response_to(current_batch[pos], kind)]
    /\ arrival' = Append(arrival, pos)
    /\ UNCHANGED <<embPc, chunk_texts, batch_start, attempt, batch_embeddings,
                   processed_chunks, max_retries, batch_log, call_batch, stats>>
    /\ UNCHANGED <<trackerVars, fileVars, embedOthers, chunkVars, writerVars, cliVars, resumeVars, searchVars>>

\* embedder.py:22-32: gather returns once every request has completed; the
\* loop over the responses builds the list, or response.json() raises and
\* `embeddings` is not assigned.
EmbedGather ==
    /\ embPc = "inflight"
    /\ \A k \in 1..Len(responses) : responses[k] # Pending
    /\ LET results == gather(responses, arrival) IN
       IF \E k \in 1..Len(results) : json_raises(results[k])
       THEN /\ embPc' = "except"
            /\ batch_log' = Append(batch_log, Event("raised", 0))
            /\ UNCHANGED <<batch_embeddings, call_batch>>
       ELSE /\ embPc' = "assemble"
            /\ batch_log' = Append(batch_log, Event("returned", 0))
            /\ batch_embeddings' = Some([k \in 1..Len(results) |-> parse_response(results[k])])
            /\ call_batch' = Some(batch_start)
    /\ UNCHANGED <<chunk_texts, batch_start, attempt, responses, arrival,
                   processed_chunks, max_retries, stats>>
    /\ UNCHANGED <<trackerVars, fileVars, embedOthers, chunkVars, writerVars, cliVars, resumeVars, searchVars>>

\* Lines 89-95: the except clause of the retry loop: the last attempt
\* re-raises, an earlier one sleeps and sends the batch again.
EmbedRetry ==
    /\ embPc = "except"
    /\ IF after_failed_attempt(attempt, max_retries) = "raise"
       THEN /\ embPc' = "raised"
            /\ UNCHANGED <<attempt, responses, arrival, batch_log>>
       ELSE /\ embPc' = "inflight"
            /\ attempt' = attempt + 1
            /\ responses' = [k \in 1..Len(current_batch) |-> Pending]
            /\ arrival' = <<>>
            /\ batch_log' = batch_log \o <<Event("sleep", backoff(attempt)),
                                           Event("call", 0)>>
    /\ UNCHANGED <<chunk_texts, batch_start, batch_embeddings, processed_chunks,
                   max_retries, call_batch, stats>>
    /\ UNCHANGED <<trackerVars, fileVars, embedOthers, chunkVars, writerVars, cliVars, resumeVars, searchVars>>

\* Lines 97-112: zip(batch, embeddings) builds the chunk objects.
EmbedAssemble ==
    /\ embPc = "assemble"
    /\ LET objects == create_chunk_objects(current_batch, batch_embeddings[1], "book", 1)
       IN /\ processed_chunks' = processed_chunks \o objects
          /\ stats' = count_batch(stats, current_batch, batch_embeddings[1], objects)
    /\ batch_start' = batch_start + batch_size
    /\ embPc' = "batch"
    /\ UNCHANGED <<chunk_texts, attempt, responses, arrival, batch_embeddings,
                   max_retries, batch_log, call_batch>>
    /\ UNCHANGED <<trackerVars, fileVars, embedOthers, chunkVars, writerVars, cliVars, resumeVars, searchVars>>

\* _process_chunks is called with any list of chunk strings.
EmbedInit ==
    /\ chunk_texts \in UNION {[1..n -> Texts] : n \in 0..MaxChunks}
    /\ max_retries \in 0..MaxRetries
    /\ embPc = "batch" /\ batch_start = 0 /\ attempt = 0
    /\ responses = <<>> /\ arrival = <<>> /\ batch_embeddings = None
    /\ processed_chunks = <<>>
    /\ batch_log = <<>> /\ call_batch = None
    /\ ledger = {} /\ versions = {} /\ spCall = NoCall /\ faults = 0
    /\ fileBytes = [d \in Docs |-> 2]
    /\ FilesIdle /\ PipeIdle /\ ChunkIdle /\ WritersIdle /\ CliIdle /\ HistoryIdle /\ SearchIdle

EmbedNext ==
    \/ EmbedBatch
    \/ \E pos \in 1..batch_size, kind \in ResponseKinds : EmbedComplete(pos, kind)
    \/ EmbedGather
    \/ EmbedRetry
    \/ EmbedAssemble

EmbedSpec == EmbedInit /\ [][EmbedNext]_vars

\* C9: get_embeddings_batch returns a list as long as its input in which
\* position k is None exactly when the request for texts[k] failed (it
\* raised, or its body had no embedding or was no JSON) and a vector
\* otherwise; no failure aborts the call.
C9_FailuresBecomeNone ==
    /\ embPc # "except"
    /\ embPc = "assemble" =>
          /\ Len(batch_embeddings[1]) = Len(current_batch)
          /\ \A k \in 1..Len(current_batch) :
                IF responses[k].kind = "vec"
                THEN batch_embeddings[1][k] = Some(responses[k].vector)
                ELSE batch_embeddings[1][k] = None

\* C10: under every completion order of a batch's requests, each chunk
\* record carries the vector returned for the request that sent the
\* record's own content.
C10_VectorsFollowPosition ==
    /\ \A k \in 1..Len(processed_chunks) :
          processed_chunks[k].embedding = embedding_of(processed_chunks[k].content)
    /\ embPc = "assemble" =>
          \A k \in 1..Len(current_batch) :
              batch_embeddings[1][k] # None =>
                  /\ responses[k].prompt = current_batch[k]
                  /\ batch_embeddings[1][k] = Some(responses[k].vector)

\* Two different texts were embedded in one batch whose second request
\* completed first, and both records are assembled.
C10_Witness ==
    /\ Len(arrival) = 2 /\ arrival[1] = 2
    /\ embPc = "batch"
    /\ Len(processed_chunks) >= 2
    /\ processed_chunks[1].content # processed_chunks[2].content


(***************************************************************************)
(* Claims about the retry loop of _process_chunks (EmbedSpec).             *)
(***************************************************************************)
EventsOf(log, ev) == {k \in 1..Len(log) : log[k].ev = ev}

C11_WitnessFatal ==
    /\ embPc = "raised"
    /\ max_retries = MaxRetries
    /\ Cardinality(EventsOf(batch_log, "raised")) = MaxRetries

(***************************************************************************)
(* Claims about checkpoints, the output files and the ledger (Spec).       *)
(***************************************************************************)
\* The chunks of the pages up to page K among the chunks accumulated so far.
RECURSIVE ChunksThrough(_, _)
ChunksThrough(cs, K) ==
    IF cs = <<>> THEN <<>>
    ELSE (IF Head(cs).page <= K THEN <<Head(cs)>> ELSE <<>>)
         \o ChunksThrough(Tail(cs), K)

LastInterval(p) == (p \div CheckpointInterval) * CheckpointInterval

\* C12: while a document is InProgress in the page loop and the loop has
\* passed page p >= 10, the temporary file holds exactly the chunks
\* accumulated through the largest multiple of 10 that is <= p.
C12_CheckpointBound ==
    (runPc = "loop" /\ pdfPc = "pages" /\ page_num >= CheckpointInterval) =>
        tmpFile[idx] = Some(ChunksThrough(chunks, LastInterval(page_num)))

\* C13: when the first processing of a document is interrupted after it
\* wrote the checkpoint of page K and before the document is completed, the
\* temporary file holds exactly the chunks accumulated through page K and
\* the document has no permanent output file.
C13_InterruptLeavesCheckpoint ==
    (runPc = "interrupted" /\ runs = 1 /\ checkpointed > 0) =>
        /\ tmpFile[idx] = Some(ChunksThrough(chunks, checkpointed))
        /\ outFile[idx] = None

\* C14: success ordering. When process_pdf is about to record the document
\* as completed, the permanent file already holds the complete chunk list
\* and the temporary file is gone; and for every document this run has
\* completed, the ledger holds its completed entry, the permanent file holds
\* the chunk set that entry counts, and no temporary file exists.
C14_SuccessOrdering ==
    /\ pdfPc = "unlink" => outFile[idx] = Some(chunks)
    /\ pdfPc = "record" => (outFile[idx] = Some(chunks) /\ tmpFile[idx] = None)
    /\ \A d \in Docs :
          (runPc \in {"loop", "returned", "raised"} /\ outcome[d] = "Completed") =>
              /\ outFile[d] # None
              /\ tmpFile[d] = None
              /\ \E r \in ledger :
                    /\ r.file_path = d
                    /\ r.status = "completed"
                    /\ r.processor_version = config.processor_version
                    /\ r.chunks_count = Len(outFile[d][1])
                    /\ r.total_tokens = SumTokens(outFile[d][1])

\* A twenty-page document, whose checkpoint of page 10 was written, has been
\* completed: both its chunks are in the permanent file.
C14_Witness ==
    \E d \in Docs :
        /\ outcome[d] = "Completed"
        /\ fileBytes[d] = 4
        /\ outFile[d] # None
        /\ Len(outFile[d][1]) = 2
        /\ tmpFile[d] = None
        /\ \E r \in ledger : r.file_path = d /\ r.status = "completed"

\* C15: after an attempt of a document has ended Failed through an exception
\* raised inside process_pdf's try block (reading a page, embedding, writing
\* a file, recording in the ledger), the document has no temporary file and
\* the batch loop has received the exception and gone on.
C15_FailedLeavesNoTempFile ==
    \A d \in Docs :
        (runPc \in {"loop", "returned", "raised"} /\ outcome[d] = "Failed"
            /\ io # {} /\ d = idx - 1 /\ pdfPc = "none") =>
                tmpFile[d] = None

(***************************************************************************)
(* Claims about record_processing, reset_tracking and clear_all            *)
(* (RecordSpec).                                                           *)
(***************************************************************************)
EntriesOf(path) == {r \in ledger : r.file_path = path}

\* C16: after any sequence of record, reset and clear_all operations the
\* ledger holds at most one entry per file_path, and when a record call has
\* committed (and no later one for its path has) that entry's hash, four
\* configuration fields, chunks_count, total_tokens, status, error_message
\* and metadata (None stored as the empty dict) are those of that call.
C16_LatestRecordWins ==
    /\ \A p \in TrackerPaths : Cardinality(EntriesOf(p)) <= 1
    /\ \A w \in Writers :
          txn[w].pc = "committed" =>
             \E r \in ledger :
                /\ r.file_path = txn[w].file_path
                /\ r.file_hash = txn[w].file_hash
                /\ r.chunk_size = txn[w].config.chunk_size
                /\ r.chunk_overlap = txn[w].config.chunk_overlap
                /\ r.embed_model = txn[w].config.embed_model
                /\ r.processor_version = txn[w].config.processor_version
                /\ r.chunks_count = txn[w].args.chunks_count
                /\ r.total_tokens = txn[w].args.total_tokens
                /\ r.status = txn[w].args.status
                /\ r.error_message = txn[w].args.error_message
                /\ r.metadata = Json(txn[w].args.metadata)

\* A completed record has replaced the failed record another call had
\* committed for the same path: the entry carries no error message.
C16_Witness ==
    \E w, u \in Writers :
        /\ txn[w].pc = "committed" /\ txn[w].args.status = "completed"
        /\ txn[u].pc = "overwritten" /\ txn[u].args.status = "failed"
        /\ txn[u].file_path = txn[w].file_path
        /\ \E r \in ledger : r.file_path = txn[w].file_path /\ r.error_message = None

\* C17: under any interleaving of record calls, a path has exactly one
\* entry once a call for it committed and that entry is, field for field,
\* the row of the call that committed last; a processor version has at most
\* one row, and the version of every committed call has one; a call raises
\* only when its connection failed, never because of another writer; and
\* the entry of a committed call stays as it is while other paths are
\* written.
C17_ConcurrentRecords ==
    /\ \A w \in Writers :
          txn[w].pc = "committed" =>
             /\ EntriesOf(txn[w].file_path) = {row_of(txn[w])}
             /\ Cardinality({v \in versions :
                    v.version_hash = txn[w].config.processor_version}) = 1
    /\ \A v1, v2 \in versions : v1.version_hash = v2.version_hash => v1 = v2
    /\ \A w \in Writers : txn[w].pc = "raised" => faults > 0

\* Two calls for the same path overlapped: writer 2 hashed the file before
\* it was rewritten, writer 1 after; writer 1 inserted the version row and
\* committed first; writer 2, with another configuration of the same
\* version, committed last.
C17_Witness ==
    /\ txn[1].pc = "overwritten" /\ txn[2].pc = "committed"
    /\ txn[1].file_path = 1 /\ txn[2].file_path = 1
    /\ txn[1].file_hash = compute_file_hash(2)
    /\ txn[2].file_hash = compute_file_hash(1)
    /\ txn[1].version_pending /\ ~txn[2].version_pending
    /\ txn[1].config # txn[2].config
    /\ Cardinality(versions) = 1
    /\ faults = 0

(***************************************************************************)
(* Claims about the version table, reset_tracking, clear_all and           *)
(* should_process (LedgerSpec).                                            *)
(***************************************************************************)
VersionHashes(vers) == {v.version_hash : v \in vers}

\* The configuration a ledger entry was recorded with.
ConfigOf(r) ==
    [chunk_size |-> r.chunk_size, chunk_overlap |-> r.chunk_overlap,
     embed_model |-> r.embed_model, processor_version |-> r.processor_version]

\* C18: the version table is append-only. Every step other than clear_all
\* keeps every version row as it is (hash and configuration snapshot); a
\* record call that writes an entry adds the row of its processor version
\* with its configuration if the hash was unseen and adds nothing
\* otherwise; a hash never has two rows.
C18_VersionsAppendOnly ==
    [][/\ TrackerClearAll \/ versions \subseteq versions'
       /\ \A r \in ledger' \ ledger :
             versions' = IF r.processor_version \in VersionHashes(versions)
                         THEN versions
                         ELSE versions \cup {[version_hash |-> r.processor_version,
                                              config_json |-> ConfigOf(r)]}
       /\ \A v1, v2 \in versions' : v1.version_hash = v2.version_hash => v1 = v2
      ]_vars

\* Both versions are registered, and an entry recorded later with another
\* configuration of a registered version left that version's snapshot as
\* it was; the other path's entries were reset or never written.
C18_Witness ==
    /\ Cardinality(versions) = 2
    /\ \E v \in versions, r \in ledger :
          /\ r.processor_version = v.version_hash
          /\ ConfigOf(r) # v.config_json
    /\ Cardinality(ledger) = 1

\* C19: reset_tracking removes every ledger entry and leaves the version
\* table as it is, so that afterwards should_process (without force, on a
\* file it can read, the database answering) returns (true, none) for
\* every path and configuration; clear_all removes every ledger entry and
\* every version row.
C19_ResetAndClear ==
    [][/\ TrackerResetTracking =>
             /\ ledger' = {}
             /\ versions' = versions
             /\ \A p \in TrackerPaths, c \in Configs :
                   fileBytes'[p] # Unreadable =>
                      LET r == should_process(ledger', fileBytes'[p], p, c, FALSE, TRUE)
                      IN ~r.raised /\ r.ret = <<TRUE, None>>
       /\ TrackerClearAll => (ledger' = {} /\ versions' = {})
       /\ (spCall'.called /\ ledger' = {} /\ spCall'.db_answers /\ ~spCall'.force
              /\ fileBytes'[spCall'.file_path] # Unreadable) =>
             spCall'.result.ret = <<TRUE, None>>
      ]_vars

\* After records under both versions and a reset, the ledger is empty, both
\* version rows are still there and a call of should_process without force
\* has answered (true, none).
C19_Witness ==
    /\ ledger = {}
    /\ Cardinality(versions) = 2
    /\ spCall.called /\ ~spCall.force
    /\ spCall.result.ret = <<TRUE, None>>

C21_ForceReprocessesAll ==
    (command.invoked /\ command.force /\ command.exit_code # None) =>
        \A d \in Docs : attempts[d] > 0 /\ outcome[d] \in {"Completed", "Failed"}

\* C22: constructing the chunker with chunk_overlap >= chunk_size is
\* rejected at construction time: no chunker with such a configuration
\* ever exists, so nothing is tokenised with it.
C22_InvalidOverlapRejected ==
    chunk_overlap >= chunk_size => ckPc = "new"

(***************************************************************************)
(* Claims about item failures inside a returned batch (EmbedSpec).         *)
(***************************************************************************)
\* The positions of a returned list of embeddings that hold None.
NonePositions(embeddings) == {k \in 1..Len(embeddings) : embeddings[k] = None}

\* The texts of a batch at the positions whose embedding is not None.
RECURSIVE EmbeddedTexts(_, _)
EmbeddedTexts(batch, embeddings) ==
    IF batch = <<>> \/ embeddings = <<>>
    THEN <<>>
    ELSE (IF Head(embeddings) # None THEN <<Head(batch)>> ELSE <<>>)
         \o EmbeddedTexts(Tail(batch), Tail(embeddings))

\* C23: when the loop over a returned batch has run, failed_chunks has
\* grown by one for each position holding None, the new chunk records are
\* those of the other positions (none for a text whose result is None),
\* records created plus failed_chunks increments equal the batch length,
\* and the method goes on with the next batch: it does not raise and, once
\* a call has returned, no further call is made for that batch.
C23_NoneItemsCounted ==
    [][/\ (embPc = "assemble" /\ embPc' # "assemble") =>
            LET embeddings == batch_embeddings[1]
                created == SubSeq(processed_chunks', Len(processed_chunks) + 1,
                                  Len(processed_chunks'))
            IN /\ Len(embeddings) = Len(current_batch)
               /\ stats'.failed_chunks =
                      stats.failed_chunks + Cardinality(NonePositions(embeddings))
               /\ SubSeq(processed_chunks', 1, Len(processed_chunks)) = processed_chunks
               /\ [k \in 1..Len(created) |-> created[k].content] =
                      EmbeddedTexts(current_batch, embeddings)
               /\ Len(created) + (stats'.failed_chunks - stats.failed_chunks) =
                      Len(current_batch)
               /\ embPc' = "batch"
               /\ batch_start' = batch_start + batch_size
       /\ \A i \in 1..Len(batch_log') :
              batch_log'[i].ev = "returned" => i = Len(batch_log')
      ]_vars

\* A batch of two texts has returned with one vector and one None, and its
\* loop has run: one chunk record, one failed chunk.
C23_Witness ==
    /\ embPc = "batch"
    /\ batch_start = batch_size
    /\ batch_embeddings # None
    /\ Cardinality(NonePositions(batch_embeddings[1])) = 1
    /\ Len(batch_embeddings[1]) = 2
    /\ Len(processed_chunks) = 1
    /\ stats.failed_chunks = 1

(***************************************************************************)
(* Claims about the statistics of a batch run (Spec).                      *)
(***************************************************************************)
\* The documents of the run that ended in state s.
DocsIn(s) == {d \in Docs : outcome[d] = s}

\* C24: after a batch run that returned, every document has ended Skipped,
\* Completed or Failed, and the statistics hold the number of documents in
\* each of the three states: processed_books and skipped_books are the
\* numbers of Completed and Skipped documents, and some further statistic
\* is the number of Failed documents.
C24_DocumentCountsReported ==
    runPc = "returned" =>
        /\ \A d \in Docs : outcome[d] \in {"Skipped", "Completed", "Failed"}
        /\ stats.processed_books = Cardinality(DocsIn("Completed"))
        /\ stats.skipped_books = Cardinality(DocsIn("Skipped"))
        /\ \E k \in DOMAIN stats \ {"processed_books", "skipped_books"} :
               stats[k] = Cardinality(DocsIn("Failed"))

\* C25: exactly-once accounting. At the step at which process_pdf records a
\* document as completed, the row it writes is the document's only row, its
\* chunks_count is the number of chunk records in the permanent file just
\* written and its total_tokens the sum of their token_count values; and
\* that file holds each embedded chunk once: its records are chunks of
\* pages of the document, in page order, no page's chunk twice.
C25_ExactlyOnceAccounting ==
    [][(pdfPc = "record" /\ outcome'[idx] = "Completed") =>
          LET d == idx
              file == outFile'[d][1]
              rows == {r \in ledger' : r.file_path = d}
          IN /\ outFile'[d] # None
             /\ Cardinality(rows) = 1
             /\ \A r \in rows :
                   /\ r.status = "completed"
                   /\ r.chunks_count = Len(file)
                   /\ r.total_tokens = SumTokens(file)
             /\ \A i \in 1..Len(file) :
                   /\ file[i].book = d
                   /\ file[i].page \in 1..Len(PagesOf(reader[1]))
                   /\ \E k \in 1..Len(PagesOf(reader[1])[file[i].page].texts) :
                          PagesOf(reader[1])[file[i].page].texts[k] = file[i].content
                   /\ file[i].token_count = Len(encode(file[i].content))
             /\ \A i, j \in 1..Len(file) : i < j => file[i].page < file[j].page
      ]_vars

\* A twenty-page document has been recorded as completed with both its
\* chunks: chunks_count 2 and total_tokens 2, as the file holds.
C25_Witness ==
    \E d \in Docs :
        /\ outcome[d] = "Completed"
        /\ fileBytes[d] = 4
        /\ \E r \in ledger :
              /\ r.file_path = d /\ r.status = "completed"
              /\ r.chunks_count = 2 /\ r.total_tokens = 2
        /\ outFile[d] # None /\ SumTokens(outFile[d][1]) = 2

(***************************************************************************)
(* Claims about interrupted documents (Spec).                              *)
(***************************************************************************)
\* The completed entries of the interrupted document that match the
\* configuration of the interrupted call and the file as it is now.
CompletedAfterInterrupt ==
    {r \in MatchingEntries(interrupted[1].doc, interrupted[1].config) :
        r.status = "completed"}

\* C26: resumability after an interrupt. When a call of process_pdf has
\* been interrupted, the ledger holds no completed entry of the document
\* that matches the file's hash and the configuration, at the interrupt
\* and for as long as the file is the same and no later call has looked
\* the document up; and the next call for the document with the same file
\* and configuration (no force, the ledger answering) does not skip it: it
\* takes the document to InProgress.
C26_InterruptedIsResumed ==
    interrupted # None =>
        /\ (/\ interrupted[1].rechecked = "no"
            /\ compute_file_hash(fileBytes[interrupted[1].doc]) = interrupted[1].file_hash)
               => CompletedAfterInterrupt = {}
        /\ interrupted[1].rechecked \in {"no", "InProgress"}

\* The run after an interrupted one, with the same file and configuration,
\* has called process_pdf for the interrupted document, whose temporary
\* file the interrupted call left behind, and is processing it.
C26_Witness ==
    /\ interrupted # None
    /\ interrupted[1].rechecked = "InProgress"
    /\ runs = 2
    /\ outcome[interrupted[1].doc] = "InProgress"
    /\ tmpFile[interrupted[1].doc] # None

\* C27: cancellation cleanup. When an interrupt has ended a call of
\* process_pdf whose document was InProgress, the cleanup has run before
\* control left the call: the document has no temporary file, and the
\* progress task of a call that had entered its try block has been removed.
C27_InterruptCleansUp ==
    runPc = "interrupted" =>
        /\ tmpFile[idx] = None
        /\ interrupted # None
        /\ io # {} => interrupted[1].task_removed

\* C28: a timeout of an embedding request (a request that raised) makes the
\* call for its batch fail, so that the retry loop attempts the batch
\* again: no call in which a request timed out returns a list that the
\* pipeline then assembles chunk records from.
C28_TimeoutFailsTheBatch ==
    embPc = "assemble" =>
        \A k \in 1..Len(responses) : responses[k].kind # "exc"

(***************************************************************************)
(* Claims about pages the extractor cannot read (Spec).                    *)
(***************************************************************************)
\* C29: when the page loop of process_pdf takes a page whose extract_text
\* raises or yields no text, the page is skipped and the loop goes on with
\* the next page: the page is counted as handled, no chunk is added, no
\* exception is being handled and the document stays InProgress.
C29_UnreadablePageSkipped ==
    [][(/\ pdfPc = "pages"
        /\ page_num < Len(PagesOf(reader[1]))
        /\ runPc' = runPc
        /\ LET page == PagesOf(reader[1])[page_num + 1]
           IN page.raises \/ page.texts = <<>>)
       => /\ page_num' = page_num + 1
          /\ pdfPc' = "pages"
          /\ chunks' = chunks
          /\ exc' = None
          /\ outcome'[idx] = "InProgress"
      ]_vars

(***************************************************************************)
(* Claims about the coverage of the windows (ChunkSpec).                   *)
(***************************************************************************)
\* C30: coverage. With chunk_overlap < chunk_size every window of
\* chunk_text starts at an index >= 0 that is no greater than the end of
\* the window before it, and when the loop has ended the windows together
\* hold every token index of [0, len(tokens)).
C30_WindowsCoverAllTokens ==
    chunk_overlap < chunk_size =>
        /\ \A i \in 1..Len(chunk_indices) : chunk_indices[i][1] >= 0
        /\ \A i \in 2..Len(chunk_indices) :
              chunk_indices[i][1] <= chunk_indices[i - 1][2]
        /\ (ckPc = "done" /\ chunk_indices # <<>>) =>
              \A t \in 0..(Len(tokens) - 1) :
                  \E i \in 1..Len(chunk_indices) :
                      chunk_indices[i][1] <= t /\ t < chunk_indices[i][2]

(***************************************************************************)
(* Claims about the overlap and the chunks of chunk_text (ChunkSpec).      *)
(***************************************************************************)
\* The number of token indices two windows have in common.
Shared(w1, w2) == Max(0, Min(w1[2], w2[2]) - Max(w1[1], w2[1]))

\* C31: overlap invariant. With chunk_overlap < chunk_size, every pair of
\* consecutive windows of chunk_text other than the last pair shares at
\* least chunk_overlap tokens. (A pair that has a window after it is not
\* the last pair, whether or not the loop has ended.)
C31_ConsecutiveWindowsOverlap ==
    chunk_overlap < chunk_size =>
        \A i \in 1..(Len(chunk_indices) - 2) :
            Shared(chunk_indices[i], chunk_indices[i + 1]) >= chunk_overlap

\* A text without any character other than whitespace (the empty text
\* included).
Blank(s) == \A i \in 1..Len(s) : s[i] = " "

\* The decoded text of a window.
WindowText(w) == decode(py_slice(tokens, w[1], w[2]))

\* C32: chunk_text never returns an empty or whitespace-only chunk. When
\* it has returned, no chunk of the result is blank and none begins or ends
\* with whitespace; a text that is blank yields the empty list; and the
\* result has one chunk for each window whose text is not blank, the blank
\* windows being dropped.
C32_NoBlankChunks ==
    ckPc = "done" =>
        LET result == decode_chunks(tokens, chunk_indices) IN
        /\ \A k \in 1..Len(result) :
              /\ ~Blank(result[k])
              /\ result[k][1] # " " /\ result[k][Len(result[k])] # " "
        /\ Blank(decode(tokens)) => result = <<>>
        /\ Len(result) = Cardinality({i \in 1..Len(chunk_indices) :
                                         ~Blank(WindowText(chunk_indices[i]))})

\* chunk_text has returned a chunk and has dropped a window whose text was
\* whitespace only.
C32_Witness ==
    /\ ckPc = "done"
    /\ decode_chunks(tokens, chunk_indices) # <<>>
    /\ \E i \in 1..Len(chunk_indices) :
          /\ chunk_indices[i][1] < chunk_indices[i][2]
          /\ Blank(WindowText(chunk_indices[i]))

(***************************************************************************)
(* Claims about search_chunks (under SearchSpec).                          *)
(***************************************************************************)
Occurrences(s, c) == Cardinality({i \in 1..Len(s) : s[i] = c})

Ranked == srPc = "returned" /\ all_chunks # <<>>

\* C33: search_chunks(query, top_k, similarity_threshold) returns at most
\* top_k chunks, each of them passing the threshold filter, in order of
\* non-increasing similarity, and no stored chunk that passes the filter and
\* is left out has a higher similarity than a returned one.
C33_TopKByDescendingSimilarity ==
    Ranked =>
        LET r == returned[1] IN
        /\ Len(r) <= top_k
        /\ \A i \in 1..Len(r) : greater(r[i].similarity, similarity_threshold)
        /\ \A i, j \in 1..Len(r) :
               i < j => ~greater(r[j].similarity, r[i].similarity)
        /\ \A k \in 1..Len(all_chunks) :
               LET c == all_chunks[k] IN
               (/\ greater(c.similarity, similarity_threshold)
                /\ Occurrences(all_chunks, c) > Occurrences(r, c))
                   => \A i \in 1..Len(r) : ~greater(c.similarity, r[i].similarity)

\* The call of the example: embeddings [1,0], [0,1] and one along [0.9,0.1],
\* query [1,0], top_k = 2, threshold 0: the first, then the third.
C33_Witness ==
    /\ Ranked
    /\ query_embedding = Some(<<1, 0>>) /\ top_k = 2
    /\ similarity_threshold = Real(0, 1)
    /\ Len(all_chunks) = 3
    /\ [i \in 1..3 |-> all_chunks[i].content] = <<"alpha", "beta gamma", "delta">>
    /\ all_chunks[3].embedding = <<9, 1>>
    /\ [i \in 1..Len(returned[1]) |-> returned[1][i].content] = <<"alpha", "delta">>

ZeroNorm(v) == dot(v, v) = 0

\* C34: a query embedding or a stored embedding of zero norm makes the
\* search call fail with an InvalidVector error: the call never goes on to
\* rank, and no chunk gets a nan similarity that is compared with the
\* threshold or used in the ranking.
C34_ZeroNormIsAnError ==
    Ranked =>
        /\ ~ZeroNorm(query_embedding[1])
        /\ \A i \in 1..Len(all_chunks) :
               /\ ~ZeroNorm(all_chunks[i].embedding)
               /\ ~all_chunks[i].similarity.nan

PermanentFiles == {<<"out", d>> : d \in {e \in Docs : outFile[e] # None}}

SameChunk(a, b) ==
    /\ a.book = b.book /\ a.page = b.page /\ a.content = b.content
    /\ a.embedding = b.embedding

\* C38: search_chunks ranks only the chunks of permanent output files. The
\* chunks of a checkpoint temporary file are never loaded: what is ranked is
\* the contents of the permanent files, each chunk once, and every chunk
\* returned is a chunk of a permanent file.
C38_OnlyPermanentFilesSearched ==
    /\ srPc = "rank" => \E order \in Orders(PermanentFiles) : all_chunks = load_all(order)
    /\ Ranked =>
           \A i \in 1..Len(returned[1]) :
               \E d \in Docs :
                   /\ outFile[d] # None
                   /\ \E j \in 1..Len(outFile[d][1]) :
                          SameChunk(outFile[d][1][j], returned[1][i])

(***************************************************************************)
(* Claims about the output files and the ledger (under Spec).              *)
(***************************************************************************)
ConfigOfEntry(r) ==
    [chunk_size |-> r.chunk_size, chunk_overlap |-> r.chunk_overlap,
     embed_model |-> r.embed_model, processor_version |-> r.processor_version]

\* No call of process_pdf is at work on document d.
AtRest(d) == ~(pdfPc # "none" /\ idx = d)

\* C35: the store and the ledger agree. Whenever a permanent output file
\* exists for a document (and no call is at work on it), the document's
\* ledger entry has status completed and records the configuration under
\* which the chunks of the file were produced; in particular a failed
\* reprocessing never leaves the output of an older run behind a failed
\* entry.
C35_OutputFileHasCompletedEntry ==
    \A d \in Docs :
        (outFile[d] # None /\ AtRest(d)) =>
            /\ \E r \in EntriesOf(d) :
                   /\ r.status = "completed"
                   /\ ConfigOfEntry(r) = outConfig[d][1]
            /\ \A r \in EntriesOf(d) : r.status # "failed"

\* C36: the file_hash stored in a completed entry is the hash of the bytes
\* that were extracted and chunked in that attempt, also when the file is
\* replaced while the document is InProgress; a file whose current bytes
\* were never processed is therefore never skipped.
C36_HashOfProcessedBytes ==
    [][\A d \in Docs :
          (outcome[d] = "InProgress" /\ outcome'[d] = "Completed") =>
              \E r \in ledger' :
                  /\ r.file_path = d
                  /\ r.status = "completed"
                  /\ r.file_hash = compute_file_hash(reader[1])]_vars

\* The chunk records of the permanent files of the documents in ds.
RECURSIVE WrittenChunks(_)
WrittenChunks(ds) ==
    IF ds = {} THEN <<>>
    ELSE LET d == CHOOSE e \in ds : TRUE
         IN outFile[d][1] \o WrittenChunks(ds \ {d})

\* C37: after a batch run on a fresh indexer, total_chunks and total_tokens
\* of the pipeline statistics equal the number of chunk records and the sum
\* of the token counts written to permanent output files during that run,
\* the files of the documents the run recorded as completed, also when some
\* document failed part-way.
C37_StatsMatchWrittenChunks ==
    runPc \in {"returned", "raised"} =>
        /\ stats.total_chunks = Len(WrittenChunks(DocsIn("Completed")))
        /\ stats.total_tokens = SumTokens(WrittenChunks(DocsIn("Completed")))
=============================================================================
